---- MODULE Spec2Model ----
(***************************************************************************)
(* OTP issuance and verification (routes/otp.js), identity resolution and  *)
(* token issuance (auth routes, userService) of hissabbook-api-system.     *)
(*                                                                         *)
(* Every HTTP handler is a process that occupies a slot of procs from its  *)
(* first await to its reply.  One action is the code between two awaits.   *)
(* The variable reply holds what the step just taken answered.             *)
(*                                                                         *)
(* Strings are sequences of characters (a literal of the code may be kept  *)
(* whole as one element); the empty sequence stands for a value that is    *)
(* absent, null or "" (all falsy in the code).  The clock counts ticks of  *)
(* OTP lifetime / TtlTicks.                                                *)
(***************************************************************************)
EXTENDS Integers, Sequences, FiniteSets, TLC

VARIABLES
    now,          \* the wall clock read by Date.now(), new Date() and SQL now()
    otp_codes,    \* table public.otp_codes, in insertion order; id = index
    procs,        \* slot -> the handler suspended at an await in it, or Idle
    reply,        \* the reply sent by the step just taken, NoReply if it sent none
    delivered,    \* history: the sends that reported success {<<channel, to, code>>}
    users,        \* table public.users, in insertion order; id = index
    user_details, \* table public.user_details: user id -> row, NoDetails if none
    user_roles,   \* table public.user_roles: {<<user id, role name>>}
    roles,        \* table public.roles: the role names
    tokens,       \* the user ids for which a token has been issued
    uploads,      \* the file names in the uploads directory
    saved,        \* the number of files saveImageToDisk has written
    business_invites,  \* table public.business_invites: invite id -> row
    schema_migrations, \* table public.schema_migrations: the filenames
    applied,      \* history: filename -> the times its SQL has been committed
    migrate       \* the run of runMigrations (migrate.js) and its connection

otpVars == <<otp_codes, delivered>>

fileVars == <<uploads, saved>>

migrateVars == <<schema_migrations, applied, migrate>>

idVars ==
    <<users, user_details, user_roles, roles, tokens, uploads, saved, business_invites,
      migrateVars>>

vars ==
    <<now, otp_codes, procs, reply, delivered, users, user_details, user_roles, roles,
      tokens, uploads, saved, business_invites, schema_migrations, applied, migrate>>

(***************************************************************************)
(* Bounds                                                                  *)
(***************************************************************************)
MaxTime == 4      \* the clock stops here
TtlTicks == 2     \* resolution of the clock: ticks that make up the OTP lifetime
MaxOtps == 2      \* OTP requests that reach the provider
MaxUsers == 2     \* users rows
MaxFiles == 2     \* files written to the uploads directory
NumSlots == 2     \* handlers in flight at once
RandDen == 2      \* Math.random() draws k / RandDen
MaxDigits == 17   \* digits of the longest phone handed to formatPhoneNumber
DrawDen == 256    \* Math.random() draws k / DrawDen where generateOtpCode is called alone
MaxRuns == 2      \* runs of runMigrations, one after the other

\* OTP_TTL_MINUTES * 60 * 1000 ms, in ticks of the clock.
OTP_TTL == TtlTicks

Slots == 1..NumSlots
RandomDraws == 0..(RandDen - 1)   \* Math.random() = k / RandDen, in [0, 1)

NULL == <<>>

(***************************************************************************)
(* Strings                                                                 *)
(***************************************************************************)
Digits == <<"0", "1", "2", "3", "4", "5", "6", "7", "8", "9">>

IsDigit(ch) == \E i \in 1..10 : Digits[i] = ch

RECURSIVE NatToString(_)
NatToString(n) ==
    IF n < 10 THEN <<Digits[n + 1]>>
    ELSE NatToString(n \div 10) \o <<Digits[(n % 10) + 1]>>

LowerChar(ch) ==
    CASE ch = "A" -> "a"
      [] ch = "B" -> "b"
      [] OTHER -> ch

toLowerCase(s) == [i \in 1..Len(s) |-> LowerChar(s[i])]

StartsWith(s, p) == Len(s) >= Len(p) /\ SubSeq(s, 1, Len(p)) = p

(***************************************************************************)
(* Inputs                                                                  *)
(***************************************************************************)
Phone10 == <<"9", "8", "7", "6", "5", "4", "3", "2", "1", "0">>
Phone12 == <<"9", "1">> \o Phone10
PhonePlus == <<"+">> \o Phone12
PhoneShort == <<"1", "2", "3", "4", "5", "6", "7", "8">>
Phone0 == <<"0">> \o Phone10
PhoneNoDigits == <<"n", "o", " ", "p", "h", "o", "n", "e">>

EmailLower == <<"a", "@", "x">>
EmailUpper == <<"A", "@", "x">>

\* request.body of POST /request and of POST /email/request
RequestPhones == {Phone10, PhoneShort}
RequestEmails == {EmailUpper}
RawEmails == {EmailLower, EmailUpper}

\* request.body of POST /verify: phone and email are both optional
VerifyBodies ==
    {[phone |-> Phone10, email |-> NULL], [phone |-> PhonePlus, email |-> NULL],
     [phone |-> Phone10, email |-> EmailLower],
     [phone |-> NULL, email |-> EmailLower], [phone |-> NULL, email |-> EmailUpper],
     [phone |-> NULL, email |-> NULL]}

(***************************************************************************)
(* generateOtpCode, formatPhoneNumber                                      *)
(***************************************************************************)
\* Mutant of FloorCode: the draw is scaled to six digits without the offset.
FloorCode_NoOffset(k, den) == NatToString((k * 1000000) \div den)

\* Math.floor(100000 + Math.random() * 900000).toString(), Math.random() = k / den
FloorCode(k, den) == NatToString(100000 + ((k * 900000) \div den))

generateOtpCode(k) == FloorCode(k, RandDen)

\* The codes a client presents: the ones the generator can draw.
Codes == {generateOtpCode(k) : k \in RandomDraws}

StripNonDigits(phone) == SelectSeq(phone, IsDigit)

FormatError(m) == [ok |-> FALSE, value |-> NULL, message |-> m]

\* Mutant of formatPhoneNumber: ten digits are returned without the country code.
formatPhoneNumber_TenAsIs(phone) ==
    LET cleaned == StripNonDigits(phone)
        n == Len(cleaned)
        rule0 == StartsWith(cleaned, <<"0">>) /\ n = 11
        rule91 == StartsWith(cleaned, <<"9", "1">>) /\ n = 12
        out == IF rule0 THEN <<"9", "1">> \o SubSeq(cleaned, 2, n) ELSE cleaned
    IN  IF n < 10 THEN FormatError("Phone number is too short")
        ELSE IF ~rule0 /\ n # 10 /\ ~rule91 /\ n > 15
             THEN FormatError("Phone number is too long")
        ELSE [ok |-> TRUE, value |-> out, message |-> ""]

\* Mutant of formatPhoneNumber: the leading 0 of eleven digits is kept.
formatPhoneNumber_KeepsZero(phone) ==
    LET cleaned == StripNonDigits(phone)
        n == Len(cleaned)
        rule0 == StartsWith(cleaned, <<"0">>) /\ n = 11
        rule10 == n = 10
        rule91 == StartsWith(cleaned, <<"9", "1">>) /\ n = 12
        out == IF rule0 \/ rule10 THEN <<"9", "1">> \o cleaned ELSE cleaned
    IN  IF n < 10 THEN FormatError("Phone number is too short")
        ELSE IF ~rule0 /\ ~rule10 /\ ~rule91 /\ n > 15
             THEN FormatError("Phone number is too long")
        ELSE [ok |-> TRUE, value |-> out, message |-> ""]

\* Mutant of formatPhoneNumber: the upper limit is one digit too high.
formatPhoneNumber_SixteenDigits(phone) ==
    LET cleaned == StripNonDigits(phone)
        n == Len(cleaned)
        rule0 == StartsWith(cleaned, <<"0">>) /\ n = 11
        rule10 == n = 10
        out == IF rule0 THEN <<"9", "1">> \o SubSeq(cleaned, 2, n)
               ELSE IF rule10 THEN <<"9", "1">> \o cleaned
               ELSE cleaned
    IN  IF n < 10 THEN FormatError("Phone number is too short")
        ELSE IF Len(out) > 16 THEN FormatError("Phone number is too long")
        ELSE [ok |-> TRUE, value |-> out, message |-> ""]

\* Mutant of formatPhoneNumber: the country code is prepended to 12 digits too.
formatPhoneNumber_PrefixesAgain(phone) ==
    LET cleaned == StripNonDigits(phone)
        n == Len(cleaned)
        rule0 == StartsWith(cleaned, <<"0">>) /\ n = 11
        rule10 == n = 10 \/ n = 12
        out == IF rule0 THEN <<"9", "1">> \o SubSeq(cleaned, 2, n)
               ELSE IF rule10 THEN <<"9", "1">> \o cleaned
               ELSE cleaned
    IN  IF n < 10 THEN FormatError("Phone number is too short")
        ELSE IF ~rule0 /\ ~rule10 /\ n > 15
             THEN FormatError("Phone number is too long")
        ELSE [ok |-> TRUE, value |-> out, message |-> ""]

formatPhoneNumber(phone) ==
    LET cleaned == StripNonDigits(phone)
        n == Len(cleaned)
        rule0 == StartsWith(cleaned, <<"0">>) /\ n = 11
        rule10 == n = 10
        rule91 == StartsWith(cleaned, <<"9", "1">>) /\ n = 12
        out == IF rule0 THEN <<"9", "1">> \o SubSeq(cleaned, 2, n)
               ELSE IF rule10 THEN <<"9", "1">> \o cleaned
               ELSE cleaned
    IN  IF n < 10 THEN FormatError("Phone number is too short")
        ELSE IF ~rule0 /\ ~rule10 /\ ~rule91 /\ n > 15
             THEN FormatError("Phone number is too long")
        ELSE IF Len(out) < 10 \/ Len(out) > 15
             THEN FormatError("Expected 10-15 digits")
        ELSE [ok |-> TRUE, value |-> out, message |-> ""]

(***************************************************************************)
(* Handler slots                                                           *)
(***************************************************************************)
NoRow == [id |-> 0, code |-> NULL, used |-> FALSE, expires_at |-> 0]

\* The arguments of createUser.
NoArgs ==
    [email |-> NULL, password |-> NULL, firstName |-> NULL, lastName |-> NULL,
     phone |-> NULL, role |-> ""]

\* The payload of app.jwt.sign.
NoToken == [sub |-> 0, email |-> NULL, status |-> "", roles |-> <<>>, role |-> ""]

\* A user_details row; present is FALSE where the user has none.
NoDetails ==
    [present |-> FALSE, first_name |-> NULL, last_name |-> NULL, phone |-> NULL,
     upi_qr_code |-> NULL]

\* A property the request body does not carry.
Undefined == <<"undefined">>

\* request.body of PUT /account-details
NoBody ==
    [name |-> Undefined, firstName |-> Undefined, lastName |-> Undefined,
     phone |-> Undefined, upiQrCode |-> Undefined]

Idle ==
    [pc |-> "idle", route |-> "", phone |-> NULL, email |-> NULL, code |-> NULL,
     expires_at |-> 0, start |-> 0, numbers |-> NULL,
     chan |-> "", key |-> NULL, otp |-> NoRow, t |-> 0, used_before |-> FALSE,
     args |-> NoArgs, user |-> 0, created |-> FALSE, token |-> NoToken,
     body |-> NoBody, qr |-> NULL, details |-> NoDetails, invite |-> 0,
     error |-> "", status |-> 0, msg |-> ""]

NoReply == Idle

\* No run of runMigrations has started.
NoRun ==
    [pc |-> "none", dir |-> {}, files |-> <<>>, i |-> 0, tx |-> "none", sql |-> {},
     rows |-> {}, runs |-> 0, failed |-> NULL, released |-> FALSE, ended |-> FALSE]

InFlight(s) == procs[s].pc # "idle"

\* A new request is taken by the lowest slot that runs no handler.
CanStart(s) == reply = NoReply /\ ~InFlight(s) /\ \A r \in Slots : r < s => InFlight(r)

\* The handler in slot s is resumed at the await named pc.
At(s, pc) == reply = NoReply /\ procs[s].pc = pc

Reply(p, status, msg) == [p EXCEPT !.pc = "done", !.status = status, !.msg = msg]

\* The handler in slot s answers r and leaves the slot.
Answer(s, r) ==
    /\ reply' = r
    /\ procs' = [procs EXCEPT ![s] = Idle]

\* The handler in slot s is suspended as p at its next await.
Await(s, p) ==
    /\ reply' = NoReply
    /\ procs' = [procs EXCEPT ![s] = p]

RequestRoutes == {"POST /request", "POST /email/request"}

VerifyRoutes == {"POST /verify", "POST /email/verify"}

PendingInserts == Cardinality({r \in Slots : InFlight(r) /\ procs[r].route \in RequestRoutes})

(***************************************************************************)
(* OTP store queries                                                       *)
(***************************************************************************)
\* Column otp_codes.created_at of a row inserted without it: the time of the INSERT.
CreatedAtDefault == now

\* Column otp_codes.used of a row inserted without it.
UsedDefault == FALSE

OtpRow(phone, email, code, expiresAt) ==
    [phone |-> phone, email |-> email, code |-> code, expires_at |-> expiresAt,
     created_at |-> CreatedAtDefault, used |-> UsedDefault]

\* WHERE phone = $1 / WHERE email = $1
Matching(chan, key) ==
    {i \in 1..Len(otp_codes) :
        IF chan = "phone" THEN otp_codes[i].phone = key ELSE otp_codes[i].email = key}

\* ORDER BY created_at DESC LIMIT 1: the rows the query may return.  SQL leaves
\* the order of rows with equal created_at open.
LatestRows(chan, key) ==
    {i \in Matching(chan, key) :
        \A j \in Matching(chan, key) : otp_codes[j].created_at <= otp_codes[i].created_at}

Selected(id) ==
    [id |-> id, code |-> otp_codes[id].code, used |-> otp_codes[id].used,
     expires_at |-> otp_codes[id].expires_at]

\* Mutant of Expired: a record is rejected from the instant of its expiry on.
Expired_AtExpiry(t, expiresAt) == t >= expiresAt

\* now > otp.expires_at
Expired(t, expiresAt) == t > expiresAt

\* Mutant of CheckOtp: the code is compared before the expiry is looked at.
CheckOtp_MismatchFirst(otp, code, t) ==
    IF otp.used THEN "OTP already used"
    ELSE IF otp.code # code THEN "Invalid OTP"
    ELSE IF Expired(t, otp.expires_at) THEN "OTP expired"
    ELSE "ok"

\* The checks of the verify handlers on the selected row, in the code's order.
CheckOtp(otp, code, t) ==
    IF otp.used THEN "OTP already used"
    ELSE IF Expired(t, otp.expires_at) THEN "OTP expired"
    ELSE IF otp.code # code THEN "Invalid OTP"
    ELSE "ok"

(***************************************************************************)
(* POST /request                                                           *)
(***************************************************************************)
SmsFailures ==
    {"Fast2SMS request failed: response is not JSON",
     "Fast2SMS request failed with status",
     "Fast2SMS error",
     "fetch failed"}

\* The handler in slot s goes on as p: it answers if p is a reply, else it waits.
Continue(s, p) == IF p.pc = "done" THEN Answer(s, p) ELSE Await(s, p)

\* Mutant of RequestBegin: the phone goes to the provider without the check.
RequestBegin_SendsUnchecked(phone, k, apiKey) ==
    LET base == [Idle EXCEPT !.route = "POST /request", !.phone = phone,
                             !.code = generateOtpCode(k),
                             !.expires_at = now + OTP_TTL,
                             !.start = now, !.chan = "phone"]
    IN  IF ~apiKey THEN Reply(base, 500, "Fast2SMS API key missing")
        ELSE [base EXCEPT !.pc = "fetch", !.numbers = StripNonDigits(phone)]

\* The handler up to the fetch call inside sendOtpSms.
RequestBegin(phone, k, apiKey) ==
    LET f == formatPhoneNumber(phone)
        base == [Idle EXCEPT !.route = "POST /request", !.phone = phone,
                             !.code = generateOtpCode(k),
                             !.expires_at = now + OTP_TTL,
                             !.start = now, !.chan = "phone"]
    IN  IF ~apiKey THEN Reply(base, 500, "Fast2SMS API key missing")
        ELSE IF ~f.ok THEN Reply(base, 500, "Phone number validation failed")
        ELSE [base EXCEPT !.pc = "fetch", !.numbers = f.value]

RequestStart(s, phone, k, apiKey) ==
    /\ CanStart(s)
    /\ Len(otp_codes) + PendingInserts < MaxOtps
    /\ Continue(s, RequestBegin(phone, k, apiKey))
    /\ UNCHANGED <<now, otp_codes, delivered>>
    /\ UNCHANGED idVars

\* The provider answers.  The round trip takes time: the clock has moved on
\* since the handler computed expiresAt.
RequestFetchOk(s) ==
    /\ At(s, "fetch")
    /\ now > procs[s].start
    /\ Await(s, [procs[s] EXCEPT !.pc = "insert"])
    /\ delivered' = delivered \cup {<<"phone", procs[s].numbers, procs[s].code>>}
    /\ UNCHANGED <<now, otp_codes>>
    /\ UNCHANGED idVars

\* Mutant of RequestFetchFails: the row is stored although the send failed.
RequestFetchFails_StoresRow(s, failure) ==
    /\ At(s, "fetch")
    /\ now > procs[s].start
    /\ otp_codes' = Append(otp_codes,
           OtpRow(procs[s].phone, NULL, procs[s].code, procs[s].expires_at))
    /\ Answer(s, Reply(procs[s], 500, failure))
    /\ UNCHANGED <<now, delivered>>
    /\ UNCHANGED idVars

\* sendOtpSms throws; the catch block answers 500 with the error's message.
RequestFetchFails(s, failure) ==
    /\ At(s, "fetch")
    /\ now > procs[s].start
    /\ Answer(s, Reply(procs[s], 500, failure))
    /\ UNCHANGED <<now, otp_codes, delivered>>
    /\ UNCHANGED idVars

\* The values of the INSERT: [phone, code, expiresAt].
RequestRow(p) == OtpRow(p.phone, NULL, p.code, p.expires_at)

RequestInsert(s) ==
    /\ At(s, "insert")
    /\ procs[s].route = "POST /request"
    /\ otp_codes' = Append(otp_codes, RequestRow(procs[s]))
    /\ Answer(s, [Reply(procs[s], 200, "success") EXCEPT
                      !.otp = [NoRow EXCEPT !.id = Len(otp_codes) + 1]])
    /\ UNCHANGED <<now, delivered>>
    /\ UNCHANGED idVars

(***************************************************************************)
(* POST /email/request                                                     *)
(***************************************************************************)
\* The handler up to transporter.sendMail inside sendOtpEmail.
EmailRequestBegin(email, k, smtpConfigured) ==
    LET base == [Idle EXCEPT !.route = "POST /email/request", !.email = email,
                             !.code = generateOtpCode(k),
                             !.expires_at = now + OTP_TTL,
                             !.start = now, !.chan = "email"]
    IN  IF ~smtpConfigured THEN Reply(base, 500, "Gmail SMTP configuration missing")
        ELSE [base EXCEPT !.pc = "sendMail"]

EmailRequestStart(s, email, k, smtpConfigured) ==
    /\ CanStart(s)
    /\ Len(otp_codes) + PendingInserts < MaxOtps
    /\ Continue(s, EmailRequestBegin(email, k, smtpConfigured))
    /\ UNCHANGED <<now, otp_codes, delivered>>
    /\ UNCHANGED idVars

EmailSendOk(s) ==
    /\ At(s, "sendMail")
    /\ now > procs[s].start
    /\ Await(s, [procs[s] EXCEPT !.pc = "insert"])
    /\ delivered' = delivered \cup {<<"email", procs[s].email, procs[s].code>>}
    /\ UNCHANGED <<now, otp_codes>>
    /\ UNCHANGED idVars

EmailSendFails(s) ==
    /\ At(s, "sendMail")
    /\ now > procs[s].start
    /\ Answer(s, Reply(procs[s], 500, "Failed to send email"))
    /\ UNCHANGED <<now, otp_codes, delivered>>
    /\ UNCHANGED idVars

\* Mutant of EmailRequestRow: the email is stored as the request spelled it.
EmailRequestRow_Raw(p) == OtpRow(NULL, p.email, p.code, p.expires_at)

\* The values of the INSERT: [email.toLowerCase(), code, expiresAt].
EmailRequestRow(p) == OtpRow(NULL, toLowerCase(p.email), p.code, p.expires_at)

EmailRequestInsert(s) ==
    /\ At(s, "insert")
    /\ procs[s].route = "POST /email/request"
    /\ otp_codes' = Append(otp_codes, EmailRequestRow(procs[s]))
    /\ Answer(s, [Reply(procs[s], 200, "success") EXCEPT
                      !.otp = [NoRow EXCEPT !.id = Len(otp_codes) + 1]])
    /\ UNCHANGED <<now, delivered>>
    /\ UNCHANGED idVars

(***************************************************************************)
(* POST /verify, POST /email/verify                                        *)
(***************************************************************************)
\* Mutant of Checked: an identity without records is answered like a wrong code.
Checked_NotFoundAsInvalid(base, chan, key, code, id) ==
    LET p == [base EXCEPT !.chan = chan, !.key = key]
    IN  IF id = 0 THEN Reply(p, 400, "Invalid OTP")
        ELSE LET res == CheckOtp(Selected(id), code, now)
             IN  IF res = "ok"
                 THEN [Idle EXCEPT !.pc = "update", !.route = base.route,
                                   !.phone = base.phone, !.email = base.email,
                                   !.chan = chan, !.key = key, !.code = code,
                                   !.otp = Selected(id)]
                 ELSE Reply([p EXCEPT !.otp = Selected(id)], 400, res)

\* The handler once the SELECT has returned rows: the row read is otp_codes[id],
\* or there is none (id = 0).  Past the checks the handler keeps otp.id alone.
Checked(base, chan, key, code, id) ==
    LET p == [base EXCEPT !.chan = chan, !.key = key]
    IN  IF id = 0 THEN Reply(p, 400, "OTP not found")
        ELSE LET res == CheckOtp(Selected(id), code, now)
             IN  IF res = "ok"
                 THEN [Idle EXCEPT !.pc = "update", !.route = base.route,
                                   !.phone = base.phone, !.email = base.email,
                                   !.chan = chan, !.key = key, !.code = code,
                                   !.otp = Selected(id)]
                 ELSE Reply([p EXCEPT !.otp = Selected(id)], 400, res)

Lookup(s, base, chan, key, code) ==
    IF LatestRows(chan, key) = {}
    THEN Continue(s, Checked(base, chan, key, code, 0))
    ELSE \E id \in LatestRows(chan, key) : Continue(s, Checked(base, chan, key, code, id))

\* Mutant of VerifySelect: a phone without records falls back to the email.
VerifySelect_Fallback(s, phone, email, code) ==
    /\ CanStart(s)
    /\ LET base == [Idle EXCEPT !.route = "POST /verify", !.phone = phone,
                                !.email = email, !.code = code,
                                !.start = now, !.t = now]
       IN  IF phone = NULL /\ email = NULL
           THEN Answer(s, Reply(base, 400, "Either phone or email is required"))
           ELSE IF phone # NULL /\ (email = NULL \/ LatestRows("phone", phone) # {})
                THEN Lookup(s, base, "phone", phone, code)
                ELSE Lookup(s, base, "email", toLowerCase(email), code)
    /\ UNCHANGED <<now, otp_codes, delivered>>
    /\ UNCHANGED idVars

\* Mutant of VerifySelect: every attempt consumes the records it reads.
VerifySelect_ConsumesRecord(s, phone, email, code) ==
    /\ CanStart(s)
    /\ LET base == [Idle EXCEPT !.route = "POST /verify", !.phone = phone,
                                !.email = email, !.code = code,
                                !.start = now, !.t = now]
       IN  IF phone = NULL /\ email = NULL
           THEN Answer(s, Reply(base, 400, "Either phone or email is required"))
           ELSE IF phone # NULL
                THEN Lookup(s, base, "phone", phone, code)
                ELSE Lookup(s, base, "email", toLowerCase(email), code)
    /\ otp_codes' = [i \in 1..Len(otp_codes) |->
                        IF otp_codes[i].phone = phone /\ phone # NULL
                        THEN [otp_codes[i] EXCEPT !.used = TRUE]
                        ELSE otp_codes[i]]
    /\ UNCHANGED <<now, delivered>>
    /\ UNCHANGED idVars

VerifySelect(s, phone, email, code) ==
    /\ CanStart(s)
    /\ LET base == [Idle EXCEPT !.route = "POST /verify", !.phone = phone,
                                !.email = email, !.code = code,
                                !.start = now, !.t = now]
       IN  IF phone = NULL /\ email = NULL
           THEN Answer(s, Reply(base, 400, "Either phone or email is required"))
           ELSE IF phone # NULL
                THEN Lookup(s, base, "phone", phone, code)
                ELSE Lookup(s, base, "email", toLowerCase(email), code)
    /\ UNCHANGED <<now, otp_codes, delivered>>
    /\ UNCHANGED idVars

EmailVerifySelect(s, email, code) ==
    /\ CanStart(s)
    /\ LET base == [Idle EXCEPT !.route = "POST /email/verify", !.email = email,
                                !.code = code, !.start = now, !.t = now]
       IN  Lookup(s, base, "email", toLowerCase(email), code)
    /\ UNCHANGED <<now, otp_codes, delivered>>
    /\ UNCHANGED idVars

\* Mutant of MarkUsed: every record that holds the code of the record is marked.
MarkUsed_EveryRowOfCode(id) ==
    [i \in 1..Len(otp_codes) |->
        IF otp_codes[i].code = otp_codes[id].code
        THEN [otp_codes[i] EXCEPT !.used = TRUE]
        ELSE otp_codes[i]]

\* UPDATE public.otp_codes SET used = true WHERE id = $1
MarkUsed(id) == [otp_codes EXCEPT ![id].used = TRUE]

\* Mutant of VerifyUpdate: the UPDATE flips used only if it is still false, and
\* the handler answers 'OTP already used' when it flipped nothing.
VerifyUpdate_Conditional(s) ==
    /\ At(s, "update")
    /\ IF otp_codes[procs[s].otp.id].used
       THEN /\ Answer(s, Reply(procs[s], 400, "OTP already used"))
            /\ UNCHANGED otp_codes
       ELSE /\ otp_codes' = MarkUsed(procs[s].otp.id)
            /\ Answer(s, Reply(procs[s], 200, "success"))
    /\ UNCHANGED <<now, delivered>>
    /\ UNCHANGED idVars

\* The UPDATE, then reply.send({ success: true }).
VerifyUpdate(s) ==
    /\ At(s, "update")
    /\ otp_codes' = MarkUsed(procs[s].otp.id)
    /\ Answer(s, [Reply(procs[s], 200, "success") EXCEPT
                      !.used_before = otp_codes[procs[s].otp.id].used])
    /\ UNCHANGED <<now, delivered>>
    /\ UNCHANGED idVars

(***************************************************************************)
(* userService: findUserByEmail, findUserByPhone, getUserRoles, createUser *)
(***************************************************************************)
UserIds == 1..Len(users)

\* SELECT * FROM users WHERE email = $1 LIMIT 1, with email.toLowerCase():
\* the rows the query may return.
findUserByEmail(email) == {u \in UserIds : users[u].email = toLowerCase(email)}

\* users JOIN user_details WHERE ud.phone = $1 LIMIT 1: the rows the query may
\* return.  A phone column that is NULL equals nothing, and every writer stores
\* phone || null, so no row holds the empty string.
findUserByPhone(phone) ==
    {u \in UserIds :
        /\ user_details[u].present
        /\ user_details[u].phone # NULL
        /\ user_details[u].phone = phone}

\* The role names of the user, in the order the query returns them.
getUserRoles(userId) ==
    IF <<userId, "managers">> \in user_roles THEN <<"managers">> ELSE <<>>

\* The users table lets no two rows hold the same email.
UsersEmailUnique == TRUE

\* Column users.status of a row inserted without it.
StatusDefault == "active"

\* COALESCE(EXCLUDED.x, user_details.x)
Coalesce(new, old) == IF new # NULL THEN new ELSE old

Includes(str, part) == \E i \in 1..Len(str) : str[i] = part

TempDomain == "@hissabbook.temp"

\* firstName || lastName || phone || email.includes("@hissabbook.temp")
WantsDetails(args) ==
    \/ args.firstName # NULL
    \/ args.lastName # NULL
    \/ args.phone # NULL
    \/ Includes(args.email, TempDomain)

PendingUsers == Cardinality({r \in Slots : procs[r].pc = "insertUser"})

\* The handler calls createUser(args), unless the users table of the model is full.
CallCreateUser(s, base, args) ==
    /\ Len(users) + PendingUsers < MaxUsers
    /\ Await(s, [base EXCEPT !.pc = "insertUser", !.args = args])

\* INSERT INTO users (id, email, password_hash).  A second row for an email is
\* refused; no handler catches the error, the framework answers 500.
CreateUserInsert(s) ==
    /\ At(s, "insertUser")
    /\ LET args == procs[s].args
           email == toLowerCase(args.email)
           id == Len(users) + 1
       IN  IF UsersEmailUnique /\ \E u \in UserIds : users[u].email = email
           THEN /\ Answer(s, Reply(procs[s], 500, "duplicate key value violates unique constraint"))
                /\ UNCHANGED <<users, user_details>>
           ELSE /\ users' = Append(users,
                       [email |-> email, status |-> StatusDefault, last_login_at |-> -1,
                        password |-> args.password])
                /\ user_details' = Append(user_details, NoDetails)
                /\ Await(s, [procs[s] EXCEPT
                       !.pc = IF WantsDetails(args) THEN "insertDetails" ELSE "assignRole",
                       !.user = id, !.created = TRUE])
    /\ UNCHANGED <<now, user_roles, roles, business_invites, migrateVars>>
    /\ UNCHANGED <<tokens, uploads, saved>>
    /\ UNCHANGED otpVars

\* INSERT INTO user_details ... ON CONFLICT (user_id) DO UPDATE
CreateUserDetails(s) ==
    /\ At(s, "insertDetails")
    /\ LET args == procs[s].args
           old == user_details[procs[s].user]
       IN  user_details' = [user_details EXCEPT ![procs[s].user] =
               [old EXCEPT !.present = TRUE,
                           !.first_name = Coalesce(args.firstName, old.first_name),
                           !.last_name = Coalesce(args.lastName, old.last_name),
                           !.phone = Coalesce(args.phone, old.phone)]]
    /\ Await(s, [procs[s] EXCEPT !.pc = "assignRole"])
    /\ UNCHANGED <<now, users, user_roles, roles, business_invites, migrateVars>>
    /\ UNCHANGED <<tokens, uploads, saved>>
    /\ UNCHANGED otpVars

\* The INSERT INTO user_details is rejected by the database.  createUser has no
\* try/catch around it and the handlers have none around createUser: the
\* framework answers 500; the users row stays.
CreateUserDetailsFails(s) ==
    /\ At(s, "insertDetails")
    /\ Answer(s, Reply(procs[s], 500, "Internal Server Error"))
    /\ UNCHANGED now
    /\ UNCHANGED idVars
    /\ UNCHANGED otpVars

\* assignRole inside try/catch: a role name the roles table lacks is logged and
\* nothing is inserted.  createUser then returns the user.
CreateUserAssignRole(s) ==
    /\ At(s, "assignRole")
    /\ user_roles' = IF procs[s].args.role \in roles
                     THEN user_roles \cup {<<procs[s].user, procs[s].args.role>>}
                     ELSE user_roles
    /\ Await(s, [procs[s] EXCEPT !.pc = "getRoles"])
    /\ UNCHANGED <<now, users, user_details, roles, business_invites, migrateVars>>
    /\ UNCHANGED <<tokens, uploads, saved>>
    /\ UNCHANGED otpVars

\* A query of assignRole is rejected by the database: the catch logs the error.
CreateUserAssignRoleFails(s) ==
    /\ At(s, "assignRole")
    /\ Await(s, [procs[s] EXCEPT !.pc = "getRoles"])
    /\ UNCHANGED now
    /\ UNCHANGED idVars
    /\ UNCHANGED otpVars

\* Mutant of UpdateLastLogin: the default role is given to the user again.
UpdateLastLogin_AssignsRole(s) ==
    /\ At(s, "updateLogin")
    /\ users' = [users EXCEPT ![procs[s].user].last_login_at = now]
    /\ user_roles' = user_roles \cup {<<procs[s].user, "managers">>}
    /\ Await(s, [procs[s] EXCEPT !.pc = "getRoles"])
    /\ UNCHANGED <<now, user_details, roles, business_invites, migrateVars>>
    /\ UNCHANGED <<tokens, uploads, saved>>
    /\ UNCHANGED otpVars

\* UPDATE users SET last_login_at = now(), updated_at = now() WHERE id = $1
UpdateLastLogin(s) ==
    /\ At(s, "updateLogin")
    /\ users' = [users EXCEPT ![procs[s].user].last_login_at = now]
    /\ Await(s, [procs[s] EXCEPT !.pc = "getRoles"])
    /\ UNCHANGED <<now, user_details, user_roles, roles, business_invites, migrateVars>>
    /\ UNCHANGED <<tokens, uploads, saved>>
    /\ UNCHANGED otpVars

\* Mutant of PrimaryRole: no default when the user has no role.
PrimaryRole_NoDefault(userRoles) == IF Len(userRoles) > 0 THEN userRoles[1] ELSE ""

\* roles[0] || "managers"
PrimaryRole(userRoles) == IF Len(userRoles) > 0 THEN userRoles[1] ELSE "managers"

\* getUserRoles, app.jwt.sign and the reply: 201 for a user just created.
IssueToken(s) ==
    /\ At(s, "getRoles")
    /\ LET u == procs[s].user
           userRoles == getUserRoles(u)
           token == [sub |-> u, email |-> users[u].email, status |-> users[u].status,
                     roles |-> userRoles, role |-> PrimaryRole(userRoles)]
       IN  /\ Answer(s, [Reply(procs[s], IF procs[s].created THEN 201 ELSE 200, "token")
                             EXCEPT !.token = token])
           /\ tokens' = tokens \cup {u}
    /\ UNCHANGED <<now, users, user_details, user_roles, roles, business_invites, migrateVars>>
    /\ UNCHANGED fileVars
    /\ UNCHANGED otpVars

(***************************************************************************)
(* POST /register, POST /create-user, POST /create-user-phone              *)
(***************************************************************************)
Password == <<"p", "w">>

BobEmail == <<"b", "@", "x">>

\* request.body of POST /register
RegisterBodies ==
    {[email |-> EmailUpper, password |-> Password, firstName |-> NULL,
      lastName |-> NULL, phone |-> NULL],
     [email |-> EmailLower, password |-> Password, firstName |-> <<"A">>,
      lastName |-> NULL, phone |-> Phone12],
     [email |-> BobEmail, password |-> Password, firstName |-> NULL,
      lastName |-> NULL, phone |-> Phone12]}

CreateUserEmails == {EmailLower, EmailUpper}

CreateUserPhones == {Phone10, PhonePlus, PhoneShort}

\* Mutant of RegisterStart: the email is looked up as the request spells it.
RegisterStart_CaseSensitive(s, body) ==
    /\ CanStart(s)
    /\ LET base == [Idle EXCEPT !.route = "POST /register", !.email = body.email,
                                !.phone = body.phone]
       IN  IF \E u \in UserIds : users[u].email = body.email
           THEN Answer(s, Reply(base, 409, "Email already registered"))
           ELSE CallCreateUser(s, base,
                    [email |-> body.email, password |-> body.password,
                     firstName |-> body.firstName, lastName |-> body.lastName,
                     phone |-> body.phone, role |-> "managers"])
    /\ UNCHANGED now
    /\ UNCHANGED idVars
    /\ UNCHANGED otpVars

RegisterStart(s, body) ==
    /\ CanStart(s)
    /\ LET base == [Idle EXCEPT !.route = "POST /register", !.email = body.email,
                                !.phone = body.phone]
       IN  IF findUserByEmail(body.email) # {}
           THEN Answer(s, Reply(base, 409, "Email already registered"))
           ELSE CallCreateUser(s, base,
                    [email |-> body.email, password |-> body.password,
                     firstName |-> body.firstName, lastName |-> body.lastName,
                     phone |-> body.phone, role |-> "managers"])
    /\ UNCHANGED now
    /\ UNCHANGED idVars
    /\ UNCHANGED otpVars

\* verifyPassword(password, user.password_hash): the hash is the hash of the
\* password.  A user created without a password has the hash of a random string.
verifyPassword(password, passwordHash) == passwordHash # NULL /\ passwordHash = password

\* request.body of POST /login
LoginBodies ==
    {[email |-> EmailUpper, password |-> Password],
     [email |-> EmailLower, password |-> <<"n", "o">>]}

\* POST /login up to the UPDATE of last_login_at; from there on the handler runs
\* the statements of the existing branch of POST /create-user.
LoginStart(s, body) ==
    /\ CanStart(s)
    /\ LET base == [Idle EXCEPT !.route = "POST /login", !.email = body.email]
           refused == Reply(base, 401, "Invalid email or password")
       IN  IF findUserByEmail(body.email) = {}
           THEN Answer(s, refused)
           ELSE \E u \in findUserByEmail(body.email) :
                    IF verifyPassword(body.password, users[u].password)
                    THEN Await(s, [base EXCEPT !.pc = "updateLogin", !.user = u])
                    ELSE Answer(s, [refused EXCEPT !.user = u])
    /\ UNCHANGED now
    /\ UNCHANGED idVars
    /\ UNCHANGED otpVars

CreateUserStart(s, email) ==
    /\ CanStart(s)
    /\ LET base == [Idle EXCEPT !.route = "POST /create-user", !.email = email,
                                !.chan = "email", !.key = toLowerCase(email)]
       IN  IF findUserByEmail(email) # {}
           THEN \E u \in findUserByEmail(email) :
                    Await(s, [base EXCEPT !.pc = "updateLogin", !.user = u])
           ELSE CallCreateUser(s, base, [NoArgs EXCEPT !.email = email, !.role = "managers"])
    /\ UNCHANGED now
    /\ UNCHANGED idVars
    /\ UNCHANGED otpVars

\* The formatting inside POST /create-user-phone.
FormattedPhone(phone) ==
    LET cleaned == StripNonDigits(phone)
    IN  IF StartsWith(cleaned, <<"0">>) /\ Len(cleaned) = 11
        THEN <<"9", "1">> \o SubSeq(cleaned, 2, Len(cleaned))
        ELSE IF Len(cleaned) = 10 THEN <<"9", "1">> \o cleaned
        ELSE cleaned

\* `phone_${formattedPhone}@hissabbook.temp`
TempEmail(formattedPhone) == <<"phone_">> \o formattedPhone \o <<TempDomain>>

CreateUserPhoneStart(s, phone) ==
    /\ CanStart(s)
    /\ LET formattedPhone == FormattedPhone(phone)
           base == [Idle EXCEPT !.route = "POST /create-user-phone", !.phone = phone,
                                !.chan = "phone", !.key = formattedPhone]
       IN  IF findUserByPhone(formattedPhone) # {}
           THEN \E u \in findUserByPhone(formattedPhone) :
                    Await(s, [base EXCEPT !.pc = "updateLogin", !.user = u])
           ELSE CallCreateUser(s, base,
                    [NoArgs EXCEPT !.email = TempEmail(formattedPhone),
                                   !.phone = formattedPhone, !.role = "managers"])
    /\ UNCHANGED now
    /\ UNCHANGED idVars
    /\ UNCHANGED otpVars

(***************************************************************************)
(* utils/fileUpload.js                                                     *)
(***************************************************************************)
Truthy(x) == x # Undefined /\ x # NULL

\* x || null
OrNull(x) == IF Truthy(x) THEN x ELSE NULL

\* str.trim() === ""
Blank(str) == \A i \in 1..Len(str) : str[i] = " "

\* `data:${mime};base64,${data}` with mime = type/subtype
DataUrl(type, subtype, data) == <<"data:", type, subtype, ";base64,", data>>

\* base64String.match(/^data:(.+);base64,(.+)$/)
IsDataUrl(str) == Len(str) = 5 /\ str[1] = "data:" /\ str[4] = ";base64,"

\* `${prefix}-${Date.now()}-${uniqueId}.${extension}`
FileName(prefix, t, uniqueId, extension) ==
    <<prefix, "-">> \o NatToString(t) \o <<"-">> \o NatToString(uniqueId)
        \o <<".", extension>>

\* What saveImageToDisk does with a non-empty string, up to the write.
saveImageToDisk(base64String, prefix) ==
    IF ~IsDataUrl(base64String)
    THEN IF ~Includes(base64String, "/") /\ ~Includes(base64String, "..")
         THEN [kind |-> "name", value |-> base64String]
         ELSE [kind |-> "error", value |-> NULL]
    ELSE IF base64String[2] # "image/"
         THEN [kind |-> "error", value |-> NULL]
         ELSE [kind |-> "write",
               value |-> FileName(prefix, now, saved + 1, base64String[3])]

\* fs.unlink inside try/catch
deleteImageFromDisk(fileName) == uploads \ {fileName}

(***************************************************************************)
(* PUT /account-details                                                    *)
(***************************************************************************)
\* SELECT ... FROM user_details WHERE user_id = $1; rows[0] || null
getUserDetails(userId) == user_details[userId]

RECURSIVE Words(_)
\* name.trim().split(/\s+/), without the empty part of an all-blank name
Words(str) ==
    IF str = <<>> THEN <<>>
    ELSE IF Head(str) = " " THEN Words(Tail(str))
    ELSE LET stops == {i \in 1..Len(str) : str[i] = " "}
             n == IF stops = {} THEN Len(str)
                  ELSE (CHOOSE i \in stops : \A j \in stops : i <= j) - 1
         IN  <<SubSeq(str, 1, n)>> \o Words(SubSeq(str, n + 1, Len(str)))

RECURSIVE JoinWords(_)
\* parts.join(" ")
JoinWords(parts) ==
    IF parts = <<>> THEN <<>>
    ELSE IF Len(parts) = 1 THEN parts[1]
    ELSE parts[1] \o <<" ">> \o JoinWords(Tail(parts))

\* finalFirstName and finalLastName of the handler
FinalNames(body) ==
    IF Truthy(body.name) /\ ~Truthy(body.firstName) /\ ~Truthy(body.lastName)
    THEN LET nameParts == Words(body.name)
         IN  [firstName |-> IF nameParts = <<>> THEN NULL ELSE nameParts[1],
              lastName |-> IF nameParts = <<>> THEN NULL ELSE JoinWords(Tail(nameParts))]
    ELSE [firstName |-> body.firstName, lastName |-> body.lastName]

\* x !== undefined ? (x || null) : (existing?.x || null)
Final(x, existing) == IF x # Undefined THEN OrNull(x) ELSE existing

\* findUserByEmail(request.user.email), getUserDetails and the choice of what to
\* do with the QR code.  The users row of a token never changes its email, so
\* the two queries are taken as one step.  key keeps existing?.upi_qr_code, qr
\* is the variable qrCodeFilename.
AccountStart(s, u, body) ==
    /\ CanStart(s)
    /\ u \in tokens
    /\ \E user \in findUserByEmail(users[u].email) :
        LET qrCodeFilename == getUserDetails(user).upi_qr_code
            upiQrCode == body.upiQrCode
            base == [Idle EXCEPT !.route = "PUT /account-details", !.user = user,
                                 !.email = users[user].email, !.body = body,
                                 !.key = qrCodeFilename, !.qr = qrCodeFilename]
            pc == IF upiQrCode = Undefined THEN "readDetails"
                  ELSE IF Truthy(upiQrCode) /\ ~Blank(upiQrCode)
                       THEN IF qrCodeFilename # NULL THEN "deleteOld" ELSE "saveNew"
                  ELSE IF upiQrCode = NULL /\ qrCodeFilename # NULL THEN "deleteOld"
                  ELSE "readDetails"
        IN  Await(s, [base EXCEPT !.pc = pc])
    /\ UNCHANGED now
    /\ UNCHANGED idVars
    /\ UNCHANGED otpVars

\* await deleteImageFromDisk(qrCodeFilename)
AccountDeleteOld(s) ==
    /\ At(s, "deleteOld")
    /\ uploads' = deleteImageFromDisk(procs[s].qr)
    /\ IF Truthy(procs[s].body.upiQrCode)
       THEN Await(s, [procs[s] EXCEPT !.pc = "saveNew"])
       ELSE Await(s, [procs[s] EXCEPT !.pc = "readDetails", !.qr = NULL])
    /\ UNCHANGED <<now, users, user_details, user_roles, roles, business_invites, migrateVars, tokens, saved>>
    /\ UNCHANGED otpVars

\* qrCodeFilename = await saveImageToDisk(upiQrCode, "qr-code"); the catch
\* answers 400.  The write itself may fail.
AccountSaveNew(s, written) ==
    /\ At(s, "saveNew")
    /\ LET r == saveImageToDisk(procs[s].body.upiQrCode, "qr-code")
           failed == Reply(procs[s], 400, "Failed to save QR code")
       IN  CASE r.kind = "name" ->
                    /\ written
                    /\ Await(s, [procs[s] EXCEPT !.pc = "readDetails", !.qr = r.value])
                    /\ UNCHANGED fileVars
             [] r.kind = "error" ->
                    /\ ~written
                    /\ Answer(s, failed)
                    /\ UNCHANGED fileVars
             [] r.kind = "write" /\ written ->
                    /\ saved < MaxFiles
                    /\ uploads' = uploads \cup {r.value}
                    /\ saved' = saved + 1
                    /\ Await(s, [procs[s] EXCEPT !.pc = "readDetails", !.qr = r.value])
             [] r.kind = "write" /\ ~written ->
                    /\ Answer(s, failed)
                    /\ UNCHANGED fileVars
    /\ UNCHANGED <<now, users, user_details, user_roles, roles, business_invites, migrateVars, tokens>>
    /\ UNCHANGED otpVars

\* updateUserDetails: getUserDetails and the values prepared for the upsert
AccountReadDetails(s) ==
    /\ At(s, "readDetails")
    /\ LET existing == getUserDetails(procs[s].user)
           body == procs[s].body
           names == FinalNames(body)
       IN  Await(s, [procs[s] EXCEPT !.pc = "upsert", !.details =
               [present |-> TRUE,
                first_name |-> Final(names.firstName, existing.first_name),
                last_name |-> Final(names.lastName, existing.last_name),
                phone |-> Final(body.phone, existing.phone),
                upi_qr_code |-> Final(procs[s].qr, existing.upi_qr_code)]])
    /\ UNCHANGED now
    /\ UNCHANGED idVars
    /\ UNCHANGED otpVars

\* INSERT INTO user_details ... ON CONFLICT (user_id) DO UPDATE SET
\* x = COALESCE(EXCLUDED.x, user_details.x) ... RETURNING
updateUserDetails(old, new) ==
    IF ~old.present THEN new
    ELSE [present |-> TRUE,
          first_name |-> Coalesce(new.first_name, old.first_name),
          last_name |-> Coalesce(new.last_name, old.last_name),
          phone |-> Coalesce(new.phone, old.phone),
          upi_qr_code |-> Coalesce(new.upi_qr_code, old.upi_qr_code)]

AccountUpsert(s) ==
    /\ At(s, "upsert")
    /\ LET updatedDetails == updateUserDetails(user_details[procs[s].user], procs[s].details)
       IN  /\ user_details' = [user_details EXCEPT ![procs[s].user] = updatedDetails]
           /\ Await(s, [procs[s] EXCEPT !.pc = "accountRoles", !.details = updatedDetails])
    /\ UNCHANGED <<now, users, user_roles, roles, business_invites, migrateVars, tokens>>
    /\ UNCHANGED fileVars
    /\ UNCHANGED otpVars

\* getUserRoles and reply.send({ success: true, accountDetails })
AccountReply(s) ==
    /\ At(s, "accountRoles")
    /\ LET userRoles == getUserRoles(procs[s].user)
       IN  Answer(s, [Reply(procs[s], 200, "accountDetails") EXCEPT
               !.token = [NoToken EXCEPT !.roles = userRoles, !.role = PrimaryRole(userRoles)]])
    /\ UNCHANGED now
    /\ UNCHANGED idVars
    /\ UNCHANGED otpVars

\* Bodies that set the phone.
PhoneBodies == {[NoBody EXCEPT !.phone = Phone12]}

(***************************************************************************)
(* The clock                                                               *)
(***************************************************************************)
Tick ==
    /\ reply = NoReply
    /\ now < MaxTime
    /\ now' = now + 1
    /\ reply' = NoReply
    /\ UNCHANGED <<otp_codes, procs, delivered>>
    /\ UNCHANGED idVars

\* The reply of the last step has been observed.
Observe ==
    /\ reply # NoReply
    /\ reply' = NoReply
    /\ UNCHANGED <<now, otp_codes, procs, delivered>>
    /\ UNCHANGED idVars

(***************************************************************************)
(* Specification of the OTP routes                                         *)
(***************************************************************************)
Init ==
    /\ now = 0
    /\ otp_codes = <<>>
    /\ procs = [s \in Slots |-> Idle]
    /\ reply = NoReply
    /\ delivered = {}
    /\ users = <<>>
    /\ user_details = <<>>
    /\ user_roles = {}
    /\ roles \in {{"managers"}, {}}
    /\ tokens = {}
    /\ uploads = {}
    /\ saved = 0
    /\ business_invites = <<>>
    /\ schema_migrations = {}
    /\ applied = <<>>
    /\ migrate = NoRun

\* The roles table holds the default role.
InitSeeded == Init /\ roles = {"managers"}

NextOtp ==
    \/ Tick
    \/ Observe
    \/ \E s \in Slots, phone \in RequestPhones, k \in RandomDraws, apiKey \in BOOLEAN :
          RequestStart(s, phone, k, apiKey)
    \/ \E s \in Slots : RequestFetchOk(s)
    \/ \E s \in Slots, failure \in SmsFailures : RequestFetchFails(s, failure)
    \/ \E s \in Slots : RequestInsert(s)
    \/ \E s \in Slots, email \in RequestEmails, k \in RandomDraws, smtp \in BOOLEAN :
          EmailRequestStart(s, email, k, smtp)
    \/ \E s \in Slots : EmailSendOk(s)
    \/ \E s \in Slots : EmailSendFails(s)
    \/ \E s \in Slots : EmailRequestInsert(s)
    \/ \E s \in Slots, body \in VerifyBodies, code \in Codes :
          VerifySelect(s, body.phone, body.email, code)
    \/ \E s \in Slots, email \in RawEmails, code \in Codes : EmailVerifySelect(s, email, code)
    \/ \E s \in Slots : VerifyUpdate(s)

SpecOtp == InitSeeded /\ [][NextOtp]_vars

(***************************************************************************)
(* Specification of the identity routes                                    *)
(***************************************************************************)
NextId ==
    \/ Observe
    \/ \E s \in Slots, body \in RegisterBodies : RegisterStart(s, body)
    \/ \E s \in Slots, body \in LoginBodies : LoginStart(s, body)
    \/ \E s \in Slots, email \in CreateUserEmails : CreateUserStart(s, email)
    \/ \E s \in Slots, phone \in CreateUserPhones : CreateUserPhoneStart(s, phone)
    \/ \E s \in Slots : CreateUserInsert(s)
    \/ \E s \in Slots : CreateUserDetails(s)
    \/ \E s \in Slots : CreateUserDetailsFails(s)
    \/ \E s \in Slots : CreateUserAssignRole(s)
    \/ \E s \in Slots : CreateUserAssignRoleFails(s)
    \/ \E s \in Slots : UpdateLastLogin(s)
    \/ \E s \in Slots : IssueToken(s)
    \/ \E s \in Slots, u \in UserIds, body \in PhoneBodies : AccountStart(s, u, body)
    \/ \E s \in Slots : AccountReadDetails(s)
    \/ \E s \in Slots : AccountUpsert(s)
    \/ \E s \in Slots : AccountReply(s)

SpecId == Init /\ [][NextId]_vars

(***************************************************************************)
(* Specification of the OTP routes together with the identity routes, one  *)
(* request at a time                                                       *)
(***************************************************************************)
\* The slot of a request that does not overlap with another.
Alone == {1}

NextAuth ==
    \/ Tick
    \/ Observe
    \/ \E s \in Alone, k \in RandomDraws : RequestStart(s, Phone10, k, TRUE)
    \/ \E s \in Alone : RequestFetchOk(s)
    \/ \E s \in Alone : RequestInsert(s)
    \/ \E s \in Alone, k \in RandomDraws : EmailRequestStart(s, EmailUpper, k, TRUE)
    \/ \E s \in Alone : EmailSendOk(s)
    \/ \E s \in Alone : EmailRequestInsert(s)
    \/ \E s \in Alone, code \in Codes : VerifySelect(s, Phone10, NULL, code)
    \/ \E s \in Alone, code \in Codes : EmailVerifySelect(s, EmailLower, code)
    \/ \E s \in Alone : VerifyUpdate(s)
    \/ \E s \in Alone : CreateUserStart(s, EmailUpper)
    \/ \E s \in Alone : CreateUserPhoneStart(s, Phone10)
    \/ \E s \in Alone : CreateUserInsert(s)
    \/ \E s \in Alone : CreateUserDetails(s)
    \/ \E s \in Alone : CreateUserAssignRole(s)
    \/ \E s \in Alone : UpdateLastLogin(s)
    \/ \E s \in Alone : IssueToken(s)

SpecAuth == InitSeeded /\ [][NextAuth]_vars

(***************************************************************************)
(* Specification of the OTP routes over a database that may reject a       *)
(* query, one request at a time                                            *)
(***************************************************************************)
\* error.message of the Error a rejected app.pg.query throws.
StoreErrors ==
    {"connect ECONNREFUSED 127.0.0.1:5432", "relation \"public.otp_codes\" does not exist"}

\* The INSERT of POST /request or POST /email/request is rejected: the catch
\* answers 500 with error.message || "Failed to send OTP".
InsertFails(s, error) ==
    /\ At(s, "insert")
    /\ Answer(s, [Reply(procs[s], 500, IF error # "" THEN error ELSE "Failed to send OTP")
                      EXCEPT !.error = error])
    /\ UNCHANGED <<now, otp_codes, delivered>>
    /\ UNCHANGED idVars

\* The SELECT of a verify route is rejected: the catch answers 500 with
\* "Failed to verify OTP".
SelectFails(s, route, error) ==
    /\ CanStart(s)
    /\ Answer(s, [Reply([Idle EXCEPT !.route = route, !.start = now, !.t = now],
                        500, "Failed to verify OTP")
                      EXCEPT !.error = error])
    /\ UNCHANGED <<now, otp_codes, delivered>>
    /\ UNCHANGED idVars

\* The UPDATE of a verify route is rejected: same catch.
UpdateFails(s, error) ==
    /\ At(s, "update")
    /\ Answer(s, [Reply(procs[s], 500, "Failed to verify OTP") EXCEPT !.error = error])
    /\ UNCHANGED <<now, otp_codes, delivered>>
    /\ UNCHANGED idVars

NextStore ==
    \/ Tick
    \/ Observe
    \/ \E s \in Alone, k \in RandomDraws : RequestStart(s, Phone10, k, TRUE)
    \/ \E s \in Alone : RequestFetchOk(s)
    \/ \E s \in Alone, failure \in SmsFailures : RequestFetchFails(s, failure)
    \/ \E s \in Alone : RequestInsert(s)
    \/ \E s \in Alone, k \in RandomDraws : EmailRequestStart(s, EmailUpper, k, TRUE)
    \/ \E s \in Alone : EmailSendOk(s)
    \/ \E s \in Alone : EmailSendFails(s)
    \/ \E s \in Alone : EmailRequestInsert(s)
    \/ \E s \in Alone, error \in StoreErrors : InsertFails(s, error)
    \/ \E s \in Alone, code \in Codes : VerifySelect(s, Phone10, NULL, code)
    \/ \E s \in Alone, code \in Codes : EmailVerifySelect(s, EmailLower, code)
    \/ \E s \in Alone, route \in VerifyRoutes, error \in StoreErrors : SelectFails(s, route, error)
    \/ \E s \in Alone : VerifyUpdate(s)
    \/ \E s \in Alone, error \in StoreErrors : UpdateFails(s, error)

SpecStore == InitSeeded /\ [][NextStore]_vars

(***************************************************************************)
(* Specification of POST /create-user-phone, one request at a time         *)
(***************************************************************************)
NextPhone ==
    \/ Tick
    \/ Observe
    \/ \E s \in Alone, phone \in {Phone10, Phone0, PhonePlus, PhoneShort, PhoneNoDigits} :
           CreateUserPhoneStart(s, phone)
    \/ \E s \in Alone : CreateUserInsert(s)
    \/ \E s \in Alone : CreateUserDetails(s)
    \/ \E s \in Alone : CreateUserAssignRole(s)
    \/ \E s \in Alone : UpdateLastLogin(s)
    \/ \E s \in Alone : IssueToken(s)

SpecPhone == Init /\ [][NextPhone]_vars

(***************************************************************************)
(* Specification of generateOtpCode and formatPhoneNumber called alone     *)
(***************************************************************************)
\* A string of n digits that starts with lead.
DigitRun(lead, n) ==
    IF n <= Len(lead) THEN SubSeq(lead, 1, n)
    ELSE lead \o SubSeq(Phone10 \o Phone10, 1, n - Len(lead))

Leads == {<<>>, <<"0">>, <<"9", "1">>, <<"1">>, <<"0", "0">>}

\* The digits d as a caller may write them.
Written(d, style) ==
    LET h == Len(d) \div 2
    IN  CASE style = "plus" -> <<"+">> \o d
          [] style = "grouped" ->
                <<"(">> \o SubSeq(d, 1, h) \o <<")", " ">> \o SubSeq(d, h + 1, Len(d)) \o <<"-">>
          [] OTHER -> d

\* A call of formatPhoneNumber(phone); key keeps the digits phone was written from.
FormatCalls ==
    {[Idle EXCEPT !.pc = "call", !.route = "formatPhoneNumber",
                  !.phone = Written(DigitRun(lead, n), style), !.key = DigitRun(lead, n)] :
        lead \in Leads, n \in 0..MaxDigits, style \in {"plain", "plus", "grouped"}}

\* A call of generateOtpCode() in which Math.random() returns t / DrawDen.
GenerateCalls ==
    {[Idle EXCEPT !.pc = "call", !.route = "generateOtpCode", !.t = k] : k \in 0..(DrawDen - 1)}

InitCalls ==
    /\ now = 0
    /\ otp_codes = <<>>
    /\ procs \in {[s \in Slots |-> IF s = 1 THEN c ELSE Idle] : c \in FormatCalls \cup GenerateCalls}
    /\ reply = NoReply
    /\ delivered = {}
    /\ users = <<>>
    /\ user_details = <<>>
    /\ user_roles = {}
    /\ roles = {"managers"}
    /\ tokens = {}
    /\ uploads = {}
    /\ saved = 0
    /\ business_invites = <<>>
    /\ schema_migrations = {}
    /\ applied = <<>>
    /\ migrate = NoRun

\* formatPhoneNumber returns its value or throws an Error with a message.
CallFormatPhoneNumber(s) ==
    /\ At(s, "call")
    /\ procs[s].route = "formatPhoneNumber"
    /\ LET f == formatPhoneNumber(procs[s].phone)
       IN  Answer(s, IF f.ok
                     THEN [Reply(procs[s], 0, "returned") EXCEPT !.numbers = f.value]
                     ELSE Reply(procs[s], 0, f.message))
    /\ UNCHANGED <<now, otp_codes, delivered>>
    /\ UNCHANGED idVars

CallGenerateOtpCode(s) ==
    /\ At(s, "call")
    /\ procs[s].route = "generateOtpCode"
    /\ Answer(s, [Reply(procs[s], 0, "returned") EXCEPT
                      !.code = FloorCode(procs[s].t, DrawDen)])
    /\ UNCHANGED <<now, otp_codes, delivered>>
    /\ UNCHANGED idVars

NextCalls ==
    \/ \E s \in Slots : CallFormatPhoneNumber(s)
    \/ \E s \in Slots : CallGenerateOtpCode(s)

SpecCalls == InitCalls /\ [][NextCalls]_vars

(***************************************************************************)
(* Specification of the QR code of a profile                               *)
(***************************************************************************)
QrImage == DataUrl("image/", "png", "QUJD")

QrBodies ==
    {[NoBody EXCEPT !.upiQrCode = QrImage],
     [NoBody EXCEPT !.upiQrCode = DataUrl("text/", "plain", "QUJD")],
     [NoBody EXCEPT !.upiQrCode = <<"q", ".", "p", "n", "g">>],
     [NoBody EXCEPT !.upiQrCode = NULL],
     [NoBody EXCEPT !.name = <<"A", " ", "B">>]}

NextQr ==
    \/ Observe
    \/ \E s \in Slots : CreateUserStart(s, EmailLower)
    \/ \E s \in Slots : CreateUserInsert(s)
    \/ \E s \in Slots : CreateUserAssignRole(s)
    \/ \E s \in Slots : UpdateLastLogin(s)
    \/ \E s \in Slots : IssueToken(s)
    \/ \E s \in Slots, u \in UserIds, body \in QrBodies : AccountStart(s, u, body)
    \/ \E s \in Slots : AccountDeleteOld(s)
    \/ \E s \in Slots, written \in BOOLEAN : AccountSaveNew(s, written)
    \/ \E s \in Slots : AccountReadDetails(s)
    \/ \E s \in Slots : AccountUpsert(s)
    \/ \E s \in Slots : AccountReply(s)

SpecQr == InitSeeded /\ [][NextQr]_vars

(***************************************************************************)
(* Claims about the OTP routes                                             *)
(***************************************************************************)
VerifyReply == reply.route \in VerifyRoutes /\ reply.key # NULL

VerifyFailure == VerifyReply /\ reply.status = 400

\* The row of the identity that was inserted last, 0 if it has none.
LastInserted(chan, key) ==
    IF Matching(chan, key) = {} THEN 0
    ELSE CHOOSE i \in Matching(chan, key) : \A j \in Matching(chan, key) : j <= i

\* C1: single use, sequentially.  When the code presented is the code of the
\* record stored last for the identity, a verify fails only with 'OTP already
\* used' if that record is used, and only because of expiry if it is not: the
\* first verify before expiry succeeds, every verify after it is refused as used.
C1_SingleUseSequential ==
    VerifyFailure =>
        LET last == LastInserted(reply.chan, reply.key)
        IN  (last # 0 /\ otp_codes[last].code = reply.code) =>
                IF otp_codes[last].used
                THEN reply.msg = "OTP already used"
                ELSE reply.t > otp_codes[last].expires_at

\* C2: verification is not atomic.  A verify handler is refused only on what
\* its SELECT returned (a used row, an expired row, another code); once past the
\* checks it answers success whatever has happened to the row since.
C2_DecidedAtSelect ==
    (VerifyReply /\ reply.otp.id # 0) =>
        \/ reply.status = 200
        \/ reply.otp.used
        \/ reply.t > reply.otp.expires_at
        \/ reply.otp.code # reply.code

\* C2, witness: a second success on a record that a success had already used.
C2_SecondSuccess == VerifyReply /\ reply.status = 200 /\ reply.used_before

\* C6: the checks are applied to the row read in the order used, expired,
\* mismatch.
C6_CheckOrder ==
    (VerifyFailure /\ reply.otp.id # 0) =>
        /\ reply.otp.id \in LatestRows(reply.chan, reply.key)
        /\ reply.otp = Selected(reply.otp.id)
        /\ reply.otp.used => reply.msg = "OTP already used"
        /\ (~reply.otp.used /\ reply.t > reply.otp.expires_at) => reply.msg = "OTP expired"
        /\ reply.msg = "Invalid OTP" =>
              (~reply.otp.used /\ reply.t <= reply.otp.expires_at)

\* C6, witness: an unused expired record is presented a wrong code and the
\* answer is 'OTP expired'.
C6_ExpiredAndWrong ==
    /\ VerifyFailure
    /\ reply.otp.id # 0
    /\ ~reply.otp.used
    /\ reply.t > reply.otp.expires_at
    /\ reply.otp.code # reply.code
    /\ reply.msg = "OTP expired"

\* C7: an unused row checked strictly after expires_at is refused as expired,
\* also with the right code, and stays unused; a check at or before expires_at
\* is never refused as expired.
C7_ExpiryStrict ==
    (VerifyFailure /\ reply.otp.id # 0 /\ ~reply.otp.used) =>
        /\ reply.t > reply.otp.expires_at =>
              (reply.msg = "OTP expired" /\ ~otp_codes[reply.otp.id].used)
        /\ reply.msg = "OTP expired" => reply.t > reply.otp.expires_at

\* C7, witness: the right code is presented after expiry.
C7_ExpiredRightCode ==
    /\ VerifyFailure
    /\ reply.otp.id # 0
    /\ reply.otp.code = reply.code
    /\ reply.msg = "OTP expired"
    /\ reply.t = reply.otp.expires_at + 1

\* C8: superseding is permanent.  A verify succeeds against, and marks used,
\* only the record of the identity that was stored last.
C8_OnlyLastRecordSucceeds ==
    (VerifyReply /\ reply.status = 200) =>
        reply.otp.id = LastInserted(reply.chan, reply.key)

\* The send that stands behind a stored row.
DeliveredFor(row) ==
    IF row.phone # NULL
    THEN \E d \in delivered :
            /\ d[1] = "phone"
            /\ formatPhoneNumber(row.phone).ok
            /\ d[2] = formatPhoneNumber(row.phone).value
            /\ d[3] = row.code
    ELSE \E d \in delivered :
            d[1] = "email" /\ toLowerCase(d[2]) = row.email /\ d[3] = row.code

\* Some send to the identity has reported success.
DeliveredTo(chan, key) ==
    \E d \in delivered :
        /\ d[1] = chan
        /\ IF chan = "phone"
           THEN formatPhoneNumber(key).ok /\ d[2] = formatPhoneNumber(key).value
           ELSE toLowerCase(d[2]) = key

\* C9: a failed send stores nothing and is answered with a failure status; every
\* stored row has a successful send behind it; an identity nothing was ever
\* delivered to is answered 'OTP not found'.
C9_StoredOnlyIfSent ==
    /\ \A i \in 1..Len(otp_codes) : DeliveredFor(otp_codes[i])
    /\ (reply.route \in RequestRoutes /\ reply.status # 200) =>
            (reply.status = 500 /\ reply.otp.id = 0)
    /\ (VerifyReply /\ ~DeliveredTo(reply.chan, reply.key)) => reply.msg = "OTP not found"

\* C9, witness: the provider refuses the send for an identity that holds no
\* record, and no record is stored.
C9_SendFailed ==
    /\ reply.route = "POST /request"
    /\ reply.msg \in SmsFailures
    /\ otp_codes = <<>>

\* C10: POST /request stores the record under the normalized phone.
C10_StoredUnderNormalizedPhone ==
    (reply.route = "POST /request" /\ reply.status = 200) =>
        otp_codes[reply.otp.id].phone = formatPhoneNumber(reply.phone).value

IdentityRoutes == {"POST /create-user", "POST /create-user-phone"}

\* A verify request for the identity has answered success: only such a request
\* sets used, and nothing clears it.
IdentityVerified(chan, key) ==
    \E i \in 1..Len(otp_codes) :
        /\ otp_codes[i].used
        /\ IF chan = "email" THEN otp_codes[i].email = key
           ELSE otp_codes[i].phone # NULL /\ FormattedPhone(otp_codes[i].phone) = key

\* C3: a token answered by POST /create-user or POST /create-user-phone for an
\* identity (and the users row they create for it) comes only after a verify
\* request for that identity has answered success.
C3_TokenOnlyAfterVerification ==
    (reply.route \in IdentityRoutes /\ reply.msg = "token") =>
        IdentityVerified(reply.chan, reply.key)

\* C4: at most one user per case-folded email, and at most one user whose
\* profile row carries a given phone.
C4_OneUserPerIdentity ==
    \A u, v \in UserIds :
        u # v =>
            /\ toLowerCase(users[u].email) # toLowerCase(users[v].email)
            /\ (user_details[u].phone # NULL => user_details[u].phone # user_details[v].phone)

\* C5: POST /create-user for an email that no request but POST /create-user has
\* stored always answers a token, for the one users row that holds the email.
C5_BothCallersGetTheUser ==
    (/\ reply.route = "POST /create-user"
     /\ \A u \in findUserByEmail(reply.email) : users[u].password = NULL) =>
        /\ reply.msg = "token"
        /\ findUserByEmail(reply.email) = {reply.user}

(***************************************************************************)
(* Claims about the keys of the OTP store                                  *)
(***************************************************************************)
\* The phone rows whose raw phone normalizes to what the raw phone q does and
\* that hold the code.
SamePhoneRows(q, code) ==
    {i \in 1..Len(otp_codes) :
        /\ otp_codes[i].phone # NULL
        /\ otp_codes[i].code = code
        /\ formatPhoneNumber(q).ok
        /\ formatPhoneNumber(otp_codes[i].phone) = formatPhoneNumber(q)}

\* C11: phone verification is keyed by the normalized phone.  POST /verify with
\* the code of a record and a raw phone that normalizes to what the record's raw
\* phone does is not answered 'OTP not found'.
C11_FoundUnderNormalizedPhone ==
    (/\ reply.route = "POST /verify"
     /\ reply.chan = "phone"
     /\ SamePhoneRows(reply.key, reply.code) # {}) =>
        reply.msg # "OTP not found"

EmailRows(key) ==
    {i \in 1..Len(otp_codes) :
        otp_codes[i].email # NULL /\ toLowerCase(otp_codes[i].email) = key}

\* C12: email identities are case-folded on both sides.  Every stored email is
\* lower-case; both verify routes look up the lower-cased form of the email
\* they are given, and answer 'OTP not found' only if no record was issued for
\* an email with that lower-cased form.
C12_EmailKeysCaseFolded ==
    /\ \A i \in 1..Len(otp_codes) :
          otp_codes[i].email # NULL => otp_codes[i].email = toLowerCase(otp_codes[i].email)
    /\ (VerifyReply /\ reply.chan = "email") =>
          /\ reply.key = toLowerCase(reply.key)
          /\ reply.email # NULL => reply.key = toLowerCase(reply.email)
          /\ reply.msg = "OTP not found" <=> EmailRows(reply.key) = {}
          /\ reply.otp.id # 0 => otp_codes[reply.otp.id].email = reply.key

\* C12, witness: a code sent to an email spelled with a capital is verified
\* through POST /verify under the lower-case spelling.
C12_VerifiedUnderOtherCase ==
    /\ reply.route = "POST /verify"
    /\ reply.chan = "email"
    /\ reply.status = 200
    /\ \E d \in delivered :
          d[1] = "email" /\ d[2] # reply.key /\ toLowerCase(d[2]) = reply.key /\ d[3] = reply.code

\* C13: no cross-channel fallback.  Every record has exactly one of phone and
\* email set; a verify that carries a phone reads and marks only records of that
\* phone, also when it carries an email too; a verify that carries only an email
\* reads and marks only records of that email.
C13_ChannelScoped ==
    /\ \A i \in 1..Len(otp_codes) :
          (otp_codes[i].phone # NULL) # (otp_codes[i].email # NULL)
    /\ VerifyReply =>
          /\ reply.phone # NULL => (reply.chan = "phone" /\ reply.key = reply.phone)
          /\ reply.phone = NULL =>
                (reply.chan = "email" /\ reply.key = toLowerCase(reply.email))
          /\ reply.otp.id # 0 =>
                LET row == otp_codes[reply.otp.id]
                IN  IF reply.chan = "phone"
                    THEN row.phone = reply.key /\ row.email = NULL
                    ELSE row.email = reply.key /\ row.phone = NULL

\* C13, witness: a verify carries a phone without records and an email that has
\* a record with the presented code; the answer is 'OTP not found'.
C13_EmailNotConsulted ==
    /\ reply.route = "POST /verify"
    /\ reply.phone # NULL
    /\ reply.msg = "OTP not found"
    /\ \E i \in EmailRows(toLowerCase(reply.email)) : otp_codes[i].code = reply.code

\* C14: the record a verify request checks is the one created last for the
\* identity, whatever its state, and among records with the same creation
\* timestamp the one inserted last.  Stated of the step that runs the SELECT.
C14_SelectsLastInserted ==
    [][/\ (reply'.route \in VerifyRoutes /\ reply'.status = 400 /\ reply'.otp.id # 0) =>
              reply'.otp.id = LastInserted(reply'.chan, reply'.key)
       /\ \A s \in Slots :
              (procs[s].pc = "idle" /\ procs'[s].pc = "update") =>
                  procs'[s].otp.id = LastInserted(procs'[s].chan, procs'[s].key)]_vars

\* C15: for every stored record, expires_at is created_at plus the TTL.
C15_ExpiresAtIsCreatedAtPlusTtl ==
    \A i \in 1..Len(otp_codes) :
        otp_codes[i].expires_at = otp_codes[i].created_at + OTP_TTL

\* C16: the life of a record.  No step deletes a record or changes its identity,
\* code, expires_at or created_at; used never goes back to false; and used goes
\* from false to true only in the step of a verify request that answers success
\* for the identity of the record with the code of the record.
C16_RecordLifecycle ==
    [][/\ Len(otp_codes') >= Len(otp_codes)
       /\ \A i \in 1..Len(otp_codes) :
              /\ otp_codes'[i].phone = otp_codes[i].phone
              /\ otp_codes'[i].email = otp_codes[i].email
              /\ otp_codes'[i].code = otp_codes[i].code
              /\ otp_codes'[i].expires_at = otp_codes[i].expires_at
              /\ otp_codes'[i].created_at = otp_codes[i].created_at
              /\ otp_codes[i].used => otp_codes'[i].used
              /\ (~otp_codes[i].used /\ otp_codes'[i].used) =>
                    /\ reply'.route \in VerifyRoutes
                    /\ reply'.status = 200
                    /\ reply'.otp.id = i
                    /\ reply'.code = otp_codes[i].code
                    /\ IF reply'.chan = "phone"
                       THEN otp_codes[i].phone = reply'.key
                       ELSE otp_codes[i].email = reply'.key]_vars

\* C16, witness: a verify has answered success and has set used on a record
\* that was unused.
C16_RecordMarked ==
    /\ VerifyReply
    /\ reply.status = 200
    /\ ~reply.used_before
    /\ otp_codes[reply.otp.id].used

(***************************************************************************)
(* Claims about the identity routes                                        *)
(***************************************************************************)
\* C17: when POST /create-user or POST /create-user-phone finds an existing
\* user, its steps set last_login_at of that user and change nothing else: no
\* users, user_details or user_roles row is created or changed, the email and
\* status of the user stay, and the answer is 200 with the id of that user.
C17_ExistingUserOnlyTouched ==
    [][\A s \in Slots :
          /\ (procs[s].pc = "idle" /\ procs'[s].pc = "updateLogin") =>
                /\ UNCHANGED <<users, user_details, user_roles, roles>>
                /\ procs'[s].user \in UserIds
          /\ (/\ procs[s].route \in IdentityRoutes
              /\ procs[s].pc \in {"updateLogin", "getRoles"}
              /\ ~procs[s].created
              /\ procs'[s] # procs[s]) =>
                /\ UNCHANGED <<user_details, user_roles, roles>>
                /\ Len(users') = Len(users)
                /\ \A u \in UserIds :
                      /\ users'[u].email = users[u].email
                      /\ users'[u].status = users[u].status
                      /\ users'[u].password = users[u].password
                      /\ u # procs[s].user => users'[u] = users[u]
                /\ procs[s].pc = "updateLogin" =>
                      users'[procs[s].user].last_login_at = now
                /\ procs'[s].pc = "idle" =>
                      /\ reply'.status = 200
                      /\ reply'.user = procs[s].user
                      /\ reply'.token.sub = procs[s].user
                      /\ reply'.token.email = users[procs[s].user].email]_vars

\* C17, witness: a request that found the user has been answered 200 and the
\* user's last_login_at is set.
C17_ExistingUserAnswered ==
    /\ reply.route \in IdentityRoutes
    /\ reply.status = 200
    /\ reply.msg = "token"
    /\ ~reply.created
    /\ users[reply.user].last_login_at = now

CreatingRoutes == IdentityRoutes \cup {"POST /register"}

\* C18: once createUser has inserted the users row, the caller is answered a
\* token, also when the user_details insert or the role assignment fails.
C18_CreatedUserGetsToken ==
    (reply.route \in CreatingRoutes /\ reply.created) =>
        (reply.msg = "token" /\ reply.status = 201 /\ reply.token.sub = reply.user)

\* C19: every stored user, once createUser is through with it, has a non-empty
\* role set, also when the role assignment failed.
C19_RolesNonEmpty ==
    \A u \in UserIds :
        (\A s \in Slots :
            ~(/\ procs[s].user = u
              /\ procs[s].created
              /\ procs[s].pc \in {"insertDetails", "assignRole"})) =>
            getUserRoles(u) # <<>>

C21_RepeatedCallSameUser ==
    reply.route = "POST /create-user-phone" =>
        /\ reply.msg = "token"
        /\ {u \in UserIds : users[u].email = toLowerCase(TempEmail(reply.key))} = {reply.user}
        /\ user_details[reply.user].present
        /\ user_details[reply.user].phone = reply.key
        /\ findUserByPhone(reply.key) = {reply.user}

IsDigitString(str) == \A i \in 1..Len(str) : IsDigit(str[i])

\* C22: an input whose digits number exactly 10 is returned as "91" followed
\* by those 10 digits, however the input is written.
C22_TenDigitsGetCountryCode ==
    (reply.route = "formatPhoneNumber" /\ Len(reply.key) = 10) =>
        (reply.msg = "returned" /\ reply.numbers = <<"9", "1">> \o reply.key)

\* C22, witness: ten digits written with brackets, a space and a hyphen.
C22_TenDigitsGrouped ==
    /\ reply.route = "formatPhoneNumber"
    /\ reply.key = Phone10
    /\ Len(reply.phone) > 10
    /\ reply.numbers = Phone12

\* C23: an input whose digits number exactly 11 and start with "0" is returned
\* as "91" followed by its last 10 digits.
C23_LeadingZeroReplaced ==
    (reply.route = "formatPhoneNumber" /\ Len(reply.key) = 11 /\ reply.key[1] = "0") =>
        (reply.msg = "returned" /\ reply.numbers = <<"9", "1">> \o SubSeq(reply.key, 2, 11))

\* C23, witness: 09876543210 is returned as 919876543210.
C23_ZeroPrefixed ==
    /\ reply.route = "formatPhoneNumber"
    /\ reply.key = Phone0
    /\ reply.numbers = Phone12

\* C24: formatPhoneNumber throws for fewer than 10 and for more than 15
\* digits; every value returned is a digit string of length 10 to 15; 11 to
\* 15 digits that match no rewrite rule are returned unchanged.
C24_LengthLimits ==
    reply.route = "formatPhoneNumber" =>
        /\ (Len(reply.key) < 10 \/ Len(reply.key) > 15) => (reply.msg # "returned" /\ reply.numbers = NULL)
        /\ reply.msg = "returned" =>
              /\ IsDigitString(reply.numbers)
              /\ Len(reply.numbers) >= 10
              /\ Len(reply.numbers) <= 15
        /\ (/\ Len(reply.key) >= 11
            /\ Len(reply.key) <= 15
            /\ ~(Len(reply.key) = 11 /\ reply.key[1] = "0")) =>
              (reply.msg = "returned" /\ reply.numbers = reply.key)

\* C24, witness: sixteen digits, written with a plus sign, are refused.
C24_SixteenRefused ==
    /\ reply.route = "formatPhoneNumber"
    /\ Len(reply.key) = 16
    /\ Len(reply.phone) = 17
    /\ reply.msg = "Phone number is too long"

\* The integer a string of decimal digits denotes.
RECURSIVE ParseInt(_)
ParseInt(str) ==
    IF str = <<>> THEN 0
    ELSE 10 * ParseInt(SubSeq(str, 1, Len(str) - 1))
         + (CHOOSE d \in 0..9 : Digits[d + 1] = str[Len(str)])

\* C28: for every draw of Math.random() in [0, 1), generateOtpCode returns a
\* string of exactly 6 decimal digits without a leading zero, whose value lies
\* in [100000, 999999].
C28_SixDigitCode ==
    reply.route = "generateOtpCode" =>
        /\ Len(reply.code) = 6
        /\ IsDigitString(reply.code)
        /\ reply.code[1] # "0"
        /\ ParseInt(reply.code) >= 100000
        /\ ParseInt(reply.code) <= 999999

\* C28, witness: the draw 0 yields the lowest code, 100000.
C28_LowestDraw ==
    /\ reply.route = "generateOtpCode"
    /\ reply.t = 0
    /\ reply.code = <<"1", "0", "0", "0", "0", "0">>

\* C25: a phone that formatPhoneNumber rejects is answered a failure by POST
\* /request before anything leaves the server: no handler waits for the SMS
\* provider or for the INSERT with such a phone, and no row holds one.
C25_RejectedPhoneStopsEarly ==
    /\ \A s \in Slots :
          (procs[s].route = "POST /request" /\ InFlight(s)) =>
              /\ formatPhoneNumber(procs[s].phone).ok
              /\ procs[s].numbers = formatPhoneNumber(procs[s].phone).value
    /\ \A i \in 1..Len(otp_codes) :
          otp_codes[i].phone # NULL => formatPhoneNumber(otp_codes[i].phone).ok
    /\ (reply.route = "POST /request" /\ ~formatPhoneNumber(reply.phone).ok) =>
          /\ reply.status = 500
          /\ reply.numbers = NULL
          /\ reply.otp.id = 0

\* C25, witness: an 8-digit phone is refused with the key configured, while
\* another request waits for the provider.
C25_ShortPhoneRefused ==
    /\ reply.route = "POST /request"
    /\ reply.phone = PhoneShort
    /\ reply.msg = "Phone number validation failed"
    /\ \E s \in Slots : procs[s].pc = "fetch"

\* C26: the four failures of a verify are never conflated, in both verify
\* routes.  A refused verify carries exactly one of four pairwise distinct
\* messages: 'OTP not found' if and only if the identity has no record, 'OTP
\* already used' if and only if the record read is used, 'OTP expired' if and
\* only if it is unused and past its expiry, 'Invalid OTP' if and only if it is
\* unused, not expired and holds another code.
C26_FailuresDistinct ==
    /\ Cardinality({"OTP not found", "OTP already used", "OTP expired", "Invalid OTP"}) = 4
    /\ VerifyFailure =>
          LET otp == reply.otp
              none == Matching(reply.chan, reply.key) = {}
          IN  /\ reply.msg \in {"OTP not found", "OTP already used", "OTP expired", "Invalid OTP"}
              /\ none <=> otp.id = 0
              /\ ~none => (otp.id \in LatestRows(reply.chan, reply.key) /\ otp = Selected(otp.id))
              /\ reply.msg = "OTP not found" <=> none
              /\ reply.msg = "OTP already used" <=> (~none /\ otp.used)
              /\ reply.msg = "OTP expired" <=>
                    (~none /\ ~otp.used /\ reply.t > otp.expires_at)
              /\ reply.msg = "Invalid OTP" <=>
                    (~none /\ ~otp.used /\ reply.t <= otp.expires_at /\ otp.code # reply.code)

\* C26, witness: POST /email/verify is presented the code of a used record
\* that has also expired, and answers 'OTP already used'.
C26_UsedExpiredRightCode ==
    /\ VerifyFailure
    /\ reply.route = "POST /email/verify"
    /\ reply.otp.id # 0
    /\ reply.otp.used
    /\ reply.t > reply.otp.expires_at
    /\ reply.otp.code = reply.code
    /\ reply.msg = "OTP already used"

\* C27: a query the database rejects inside an OTP request or verify handler
\* is answered 500 with a fixed generic text, never with the message of the
\* store's own error.
C27_StoreFailureGeneric ==
    (reply.route \in RequestRoutes \cup VerifyRoutes /\ reply.error # "") =>
        /\ reply.status = 500
        /\ reply.msg \in {"Failed to send OTP", "Failed to verify OTP"}
        /\ reply.msg # reply.error

\* C29: OTP requests for one identity that overlap and whose sends succeed
\* each store their record, none is refused or merged; and a verify reads the
\* record of the identity whose INSERT came last, whichever request started
\* first.
C29_LastCommittedIsChecked ==
    [][\A s \in Slots :
          /\ (procs[s].pc = "insert" /\ procs'[s].pc = "idle") =>
                /\ Len(otp_codes') = Len(otp_codes) + 1
                /\ SubSeq(otp_codes', 1, Len(otp_codes)) = otp_codes
                /\ otp_codes'[Len(otp_codes')].code = procs[s].code
                /\ otp_codes'[Len(otp_codes')].expires_at = procs[s].expires_at
                /\ ~otp_codes'[Len(otp_codes')].used
                /\ reply'.status = 200
          /\ (procs[s].pc = "idle" /\ procs'[s].pc = "update") =>
                procs'[s].otp.id = LastInserted(procs'[s].chan, procs'[s].key)
          /\ (/\ procs[s].pc = "idle"
              /\ procs'[s].pc = "idle"
              /\ reply'.route \in VerifyRoutes
              /\ reply'.otp.id # 0) =>
                reply'.otp.id = LastInserted(reply'.chan, reply'.key)]_vars

\* C30: the normalization inside POST /create-user-phone agrees with
\* formatPhoneNumber.  A phone formatPhoneNumber accepts is looked up and
\* stored under the value formatPhoneNumber returns; a phone it rejects is
\* refused, and no lookup or createUser runs for it.
C30_AgreesWithFormatPhoneNumber ==
    /\ \A s \in Slots :
          (procs[s].route = "POST /create-user-phone" /\ InFlight(s)) =>
              /\ formatPhoneNumber(procs[s].phone).ok
              /\ procs[s].key = formatPhoneNumber(procs[s].phone).value
    /\ reply.route = "POST /create-user-phone" =>
          IF formatPhoneNumber(reply.phone).ok
          THEN reply.key = formatPhoneNumber(reply.phone).value
          ELSE reply.status >= 400 /\ reply.user = 0 /\ ~reply.created

(***************************************************************************)
(* Claims about failed verifies, registration, QR codes                    *)
(***************************************************************************)
\* C31: a verify request that is refused (not found, already used, expired,
\* invalid code, or neither phone nor email) leaves otp_codes as it was; a
\* record refused for a wrong code is still unused and unexpired, so the
\* handler's checks pass for its own code at that moment.
C31_RefusedVerifyChangesNothing ==
    [][(reply'.route \in VerifyRoutes /\ reply'.status = 400) =>
          /\ UNCHANGED <<otp_codes, delivered>>
          /\ reply'.msg = "Invalid OTP" =>
                LET id == reply'.otp.id
                IN  /\ ~otp_codes'[id].used
                    /\ otp_codes'[id].expires_at = otp_codes[id].expires_at
                    /\ CheckOtp(Selected(id), otp_codes[id].code, now) = "ok"]_vars

\* C31, witness: a wrong code has been refused and the record it was checked
\* against is unused and not expired.
C31_WrongCodeRefused ==
    /\ VerifyFailure
    /\ reply.msg = "Invalid OTP"
    /\ ~otp_codes[reply.otp.id].used
    /\ now <= otp_codes[reply.otp.id].expires_at

\* C32: formatPhoneNumber is idempotent on its output: what it returns for an
\* input it accepts, it accepts and returns unchanged.
C32_FormatIdempotent ==
    (reply.route = "formatPhoneNumber" /\ reply.msg = "returned") =>
        /\ formatPhoneNumber(reply.numbers).ok
        /\ formatPhoneNumber(reply.numbers).value = reply.numbers

\* C32, witness: ten digits written with a plus sign were rewritten to twelve.
C32_RewrittenOutput ==
    /\ reply.route = "formatPhoneNumber"
    /\ reply.msg = "returned"
    /\ Len(reply.key) = 10
    /\ Len(reply.phone) = 11
    /\ Len(reply.numbers) = 12

\* C33: POST /register for an email that, lower-cased, is the email of a
\* stored user answers 409 'Email already registered' in its first step and
\* changes no users, user_details or user_roles row; it goes on to createUser
\* only when no stored user holds the email.
C33_RegisteredEmailRefused ==
    [][/\ (reply'.route = "POST /register" /\ reply'.status = 409) =>
              /\ reply'.msg = "Email already registered"
              /\ \E u \in UserIds : users[u].email = toLowerCase(reply'.email)
              /\ procs' = procs
              /\ UNCHANGED <<users, user_details, user_roles, roles, tokens>>
       /\ \A s \in Slots :
              (procs[s].pc = "idle" /\ procs'[s].route = "POST /register") =>
                  /\ procs'[s].pc = "insertUser"
                  /\ \A u \in UserIds : users[u].email # toLowerCase(procs'[s].email)
                  /\ UNCHANGED <<users, user_details, user_roles, roles, tokens>>]_vars

\* C33, witness: a@x is stored and POST /register for A@x is refused.
C33_OtherCaseRefused ==
    /\ reply.route = "POST /register"
    /\ reply.status = 409
    /\ reply.email = EmailUpper
    /\ \E u \in UserIds : users[u].email = EmailLower

\* C34: PUT /account-details with upiQrCode "" for a user with a stored QR
\* code deletes the old file and stores null: the details the response is
\* built from, and the stored row, carry no upi_qr_code.
C34_EmptyQrCodeClears ==
    [][\A s \in Slots :
          (/\ procs[s].pc = "upsert"
           /\ procs'[s].pc = "accountRoles"
           /\ procs[s].body.upiQrCode = NULL
           /\ procs[s].key # NULL) =>
              /\ procs[s].key \notin uploads
              /\ user_details'[procs[s].user].upi_qr_code = NULL
              /\ procs'[s].details.upi_qr_code = NULL]_vars

\* C35: whenever no request is in flight, every stored upi_qr_code that names
\* a file saveImageToDisk wrote names a file that exists in the uploads
\* directory; and a request deletes no file that the upi_qr_code of another
\* user names.
C35_QrCodeFileExists ==
    [][/\ (\A s \in Slots : ~InFlight(s)') =>
              \A u \in UserIds :
                  LET f == user_details'[u].upi_qr_code
                  IN  (f # NULL /\ f[1] = "qr-code") => f \in uploads'
       /\ \A s \in Slots :
              procs[s].pc = "deleteOld" =>
                  \A u \in UserIds :
                      (user_details[u].upi_qr_code \in uploads \ uploads') =>
                          u = procs[s].user]_vars


(***************************************************************************)
(* POST /invites/accept                                                    *)
(***************************************************************************)
\* Table public.businesses: the ids; no route of the model writes it, and
\* every business has a name.
Businesses == {<<"b1">>}

\* preValidation, and findUserByEmail(request.user.email).  email is the email
\* of the verified token; body is request.body (token is required).
AcceptStart(s, email, body) ==
    /\ CanStart(s)
    /\ LET base == [Idle EXCEPT !.route = "POST /invites/accept", !.email = email,
                                !.body = body]
       IN  IF findUserByEmail(email) = {}
           THEN Answer(s, Reply(base, 404, "User not found"))
           ELSE \E u \in findUserByEmail(email) :
                    Await(s, [base EXCEPT !.pc = "selectInvite", !.user = u])
    /\ UNCHANGED now
    /\ UNCHANGED idVars
    /\ UNCHANGED otpVars

\* The business_invites table exists.  SELECT ... WHERE bi.invite_token = $1
\* AND bi.status = 'pending', then the checks on rows[0]; with no row, the
\* handler falls back on request.body.businessId.
AcceptSelect(s) ==
    /\ At(s, "selectInvite")
    /\ LET p == procs[s]
           rows == {i \in DOMAIN business_invites :
                       /\ business_invites[i].invite_token = p.body.token
                       /\ business_invites[i].status = "pending"}
       IN  IF rows # {}
           THEN \E i \in rows :
                    LET invite == business_invites[i]
                        q == [p EXCEPT !.invite = i]
                    IN  IF invite.expires_at < now
                        THEN Answer(s, Reply(q, 400, "Invite has expired"))
                        ELSE IF /\ invite.email # NULL
                                /\ toLowerCase(invite.email) # toLowerCase(users[p.user].email)
                        THEN Answer(s, Reply(q, 403,
                                 "This invite is for a different email address"))
                        ELSE Await(s, [q EXCEPT !.pc = "updateInvite"])
           ELSE IF p.body.businessId # NULL
           THEN Await(s, [p EXCEPT !.pc = "selectBusiness"])
           ELSE Answer(s, Reply(p, 404, "Invite not found"))
    /\ UNCHANGED now
    /\ UNCHANGED idVars
    /\ UNCHANGED otpVars

\* UPDATE public.business_invites SET status = 'accepted', accepted_at = now(),
\* accepted_by = $1 WHERE invite_token = $2, and the success reply.
AcceptUpdate(s) ==
    /\ At(s, "updateInvite")
    /\ business_invites' =
           [i \in DOMAIN business_invites |->
               IF business_invites[i].invite_token = procs[s].body.token
               THEN [business_invites[i] EXCEPT !.status = "accepted", !.accepted_at = now,
                                                !.accepted_by = procs[s].user]
               ELSE business_invites[i]]
    /\ Answer(s, Reply(procs[s], 200, "success"))
    /\ UNCHANGED <<now, users, user_details, user_roles, roles, tokens, fileVars, migrateVars>>
    /\ UNCHANGED otpVars

\* SELECT id, name FROM public.businesses WHERE id = $1, and the reply.
AcceptSelectBusiness(s) ==
    /\ At(s, "selectBusiness")
    /\ Answer(s, IF procs[s].body.businessId \in Businesses
                 THEN Reply(procs[s], 200, "success")
                 ELSE Reply(procs[s], 404, "Business not found"))
    /\ UNCHANGED now
    /\ UNCHANGED idVars
    /\ UNCHANGED otpVars

(***************************************************************************)
(* Specification of POST /invites/accept: two registered users and one     *)
(* invite, which is open to any email or addressed to the first user, and  *)
(* is pending or was accepted or cancelled before                          *)
(***************************************************************************)
InitInv ==
    /\ now = 0
    /\ otp_codes = <<>>
    /\ procs = [s \in Slots |-> Idle]
    /\ reply = NoReply
    /\ delivered = {}
    /\ users = [u \in 1..2 |->
                   [email |-> IF u = 1 THEN EmailLower ELSE BobEmail,
                    status |-> StatusDefault, last_login_at |-> -1, password |-> Password]]
    /\ user_details = <<NoDetails, NoDetails>>
    /\ user_roles = {}
    /\ roles = {"managers"}
    /\ tokens = {1, 2}
    /\ uploads = {}
    /\ saved = 0
    /\ \E email \in {NULL, EmailUpper}, expires_at \in {1, MaxTime + 1},
          status \in {"pending", "accepted", "cancelled"} :
           business_invites =
               <<[invite_token |-> <<"t1">>, business_id |-> <<"b1">>, email |-> email,
                  expires_at |-> expires_at, status |-> status,
                  accepted_by |-> IF status = "accepted" THEN 2 ELSE 0,
                  accepted_at |-> IF status = "accepted" THEN 0 ELSE -1]>>
    /\ schema_migrations = {}
    /\ applied = <<>>
    /\ migrate = NoRun

NextInv ==
    \/ Tick
    \/ Observe
    \/ \E s \in Slots, email \in {EmailLower, BobEmail}, token \in {<<"t1">>, <<"t2">>},
          businessId \in {NULL, <<"b1">>, <<"b2">>} :
           AcceptStart(s, email, [token |-> token, businessId |-> businessId])
    \/ \E s \in Slots : AcceptSelect(s)
    \/ \E s \in Slots : AcceptUpdate(s)
    \/ \E s \in Slots : AcceptSelectBusiness(s)

SpecInv == InitInv /\ [][NextInv]_vars


(***************************************************************************)
(* Claims about POST /invites/accept                                       *)
(***************************************************************************)
\* C36: POST /invites/accept changes an invite only to mark it accepted, and
\* only when the invite is pending, not expired, and has no email or the email
\* of the accepting user, compared without case; the answers 400 (expired) and
\* 403 (other email) leave the invite as it was; and the answer is a success
\* only for a token that matched such a pending invite.
C36_AcceptOnlyOpenInvite ==
    [][LET Open(i, u) ==
               /\ business_invites[i].status = "pending"
               /\ ~(business_invites[i].expires_at < now)
               /\ \/ business_invites[i].email = NULL
                  \/ toLowerCase(business_invites[i].email) = toLowerCase(users[u].email)
       IN  /\ \A i \in DOMAIN business_invites :
                  business_invites'[i] # business_invites[i] =>
                      /\ business_invites'[i].status = "accepted"
                      /\ \E s \in Slots :
                             /\ procs[s].pc = "updateInvite" /\ procs'[s].pc = "idle"
                             /\ business_invites[i].invite_token = procs[s].body.token
                             /\ business_invites'[i].accepted_by = procs[s].user
                             /\ Open(i, procs[s].user)
           /\ (reply'.route = "POST /invites/accept" /\ reply'.status \in {400, 403}) =>
                  /\ UNCHANGED business_invites
                  /\ reply'.invite \in DOMAIN business_invites
                  /\ reply'.status = 400 <=> business_invites[reply'.invite].expires_at < now
           /\ (reply'.route = "POST /invites/accept" /\ reply'.status = 200) =>
                  /\ reply'.invite \in DOMAIN business_invites
                  /\ business_invites[reply'.invite].invite_token = reply'.body.token
                  /\ Open(reply'.invite, reply'.user)]_vars


\* C37: an invite that is accepted stays as it is: its status, accepted_by and
\* accepted_at never change again, also when two requests for its token
\* interleave between the SELECT and the UPDATE.
C37_AcceptedOnce ==
    [][\A i \in DOMAIN business_invites :
          business_invites[i].status = "accepted" =>
              /\ business_invites'[i].status = "accepted"
              /\ business_invites'[i].accepted_by = business_invites[i].accepted_by
              /\ business_invites'[i].accepted_at = business_invites[i].accepted_at]_vars


(***************************************************************************)
(* migrate.js: loadMigrationFiles, runMigrations                           *)
(*                                                                         *)
(* migrate holds the run: dir is the migrations directory, files and i the *)
(* loop, tx the transaction of the client, sql and rows the files whose    *)
(* statements and whose schema_migrations row the open transaction holds,  *)
(* failed the file whose error the run has thrown.                         *)
(***************************************************************************)
\* loadMigrationFiles with a sort that puts the shorter name first.
loadMigrationFiles_ShorterFirst(dir) ==
    LET names == {e.name : e \in {e \in dir : e.isFile /\ e.name[Len(e.name)] = "l"}}
        less(a, b) == Len(a) < Len(b) \/ (Len(a) = Len(b) /\ a[1] = "1" /\ b[1] = "2")
    IN  [k \in 1..Cardinality(names) |->
            CHOOSE f \in names : Cardinality({g \in names : less(g, f)}) = k - 1]

\* readdir, the filter on plain files that end with ".sql", and sort(): the
\* names in ascending order of their UTF-16 code units.
loadMigrationFiles(dir) ==
    LET codeUnits == <<".", "0", "1", "2", "d", "l", "m", "q", "r", "s">>
        code(c) == CHOOSE k \in DOMAIN codeUnits : codeUnits[k] = c
        endsWith(name, suffix) ==
            /\ Len(name) >= Len(suffix)
            /\ SubSeq(name, Len(name) - Len(suffix) + 1, Len(name)) = suffix
        names == {entry.name : entry \in {e \in dir : e.isFile /\ endsWith(e.name, <<".", "s", "q", "l">>)}}
        less(a, b) ==
            \E k \in 1..(Len(b)) :
                /\ \A j \in 1..(k - 1) : j <= Len(a) /\ a[j] = b[j]
                /\ k - 1 <= Len(a)
                /\ k > Len(a) \/ code(a[k]) < code(b[k])
    IN  [k \in 1..Cardinality(names) |->
            CHOOSE f \in names : Cardinality({g \in names : less(g, f)}) = k - 1]

\* runMigrations is called: pool.connect(), CREATE TABLE IF NOT EXISTS
\* public.schema_migrations, loadMigrationFiles().
MigrateStart ==
    /\ migrate.pc \in {"none", "exited"}
    /\ migrate.runs < MaxRuns
    /\ migrate' = [migrate EXCEPT !.pc = "select", !.files = loadMigrationFiles(migrate.dir),
                                  !.i = 1, !.runs = @ + 1, !.failed = NULL,
                                  !.released = FALSE, !.ended = FALSE]
    /\ UNCHANGED <<now, procs, reply, users, user_details, user_roles, roles, tokens, fileVars,
                   business_invites, schema_migrations, applied>>
    /\ UNCHANGED otpVars

\* The head of the loop: SELECT 1 FROM public.schema_migrations WHERE filename
\* = $1; a file that is listed is skipped, another one is read.
MigrateSelect ==
    /\ migrate.pc = "select"
    /\ migrate' =
           IF migrate.i > Len(migrate.files)
           THEN [migrate EXCEPT !.pc = "finally"]
           ELSE IF migrate.files[migrate.i] \in schema_migrations
           THEN [migrate EXCEPT !.i = @ + 1]
           ELSE [migrate EXCEPT !.pc = "begin"]
    /\ UNCHANGED <<now, procs, reply, users, user_details, user_roles, roles, tokens, fileVars,
                   business_invites, schema_migrations, applied>>
    /\ UNCHANGED otpVars

\* client.query("BEGIN")
MigrateBegin ==
    /\ migrate.pc = "begin"
    /\ migrate' = [migrate EXCEPT !.pc = "sql", !.tx = "open"]
    /\ UNCHANGED <<now, procs, reply, users, user_details, user_roles, roles, tokens, fileVars,
                   business_invites, schema_migrations, applied>>
    /\ UNCHANGED otpVars

\* client.query(sql): the statements of the file run in the transaction; one
\* of them may fail, which aborts the transaction that holds the ones before.
MigrateSql(ok) ==
    /\ migrate.pc = "sql"
    /\ migrate' =
           IF ok
           THEN [migrate EXCEPT !.pc = "insert", !.sql = @ \cup {migrate.files[migrate.i]}]
           ELSE [migrate EXCEPT !.pc = "rollback", !.tx = "aborted",
                                !.sql = @ \cup {migrate.files[migrate.i]},
                                !.failed = migrate.files[migrate.i]]
    /\ UNCHANGED <<now, procs, reply, users, user_details, user_roles, roles, tokens, fileVars,
                   business_invites, schema_migrations, applied>>
    /\ UNCHANGED otpVars

\* INSERT INTO public.schema_migrations (filename) VALUES ($1)
MigrateInsert ==
    /\ migrate.pc = "insert"
    /\ migrate' = [migrate EXCEPT !.pc = "commit", !.rows = @ \cup {migrate.files[migrate.i]}]
    /\ UNCHANGED <<now, procs, reply, users, user_details, user_roles, roles, tokens, fileVars,
                   business_invites, schema_migrations, applied>>
    /\ UNCHANGED otpVars

\* client.query("COMMIT"): what the transaction holds becomes durable.
MigrateCommit ==
    /\ migrate.pc = "commit"
    /\ schema_migrations' = schema_migrations \cup migrate.rows
    /\ applied' = [f \in DOMAIN applied |-> IF f \in migrate.sql THEN applied[f] + 1 ELSE applied[f]]
    /\ migrate' = [migrate EXCEPT !.pc = "select", !.i = @ + 1, !.tx = "none",
                                  !.sql = {}, !.rows = {}]
    /\ UNCHANGED <<now, procs, reply, users, user_details, user_roles, roles, tokens, fileVars,
                   business_invites>>
    /\ UNCHANGED otpVars

\* The catch block with COMMIT in the place of ROLLBACK.
MigrateRollback_Commits ==
    /\ migrate.pc = "rollback"
    /\ applied' = [f \in DOMAIN applied |-> IF f \in migrate.sql THEN applied[f] + 1 ELSE applied[f]]
    /\ migrate' = [migrate EXCEPT !.pc = "finally", !.tx = "none", !.sql = {}, !.rows = {}]
    /\ UNCHANGED <<now, procs, reply, users, user_details, user_roles, roles, tokens, fileVars,
                   business_invites, schema_migrations>>
    /\ UNCHANGED otpVars

\* catch: client.query("ROLLBACK") drops what the transaction holds, and the
\* error is thrown again.
MigrateRollback ==
    /\ migrate.pc = "rollback"
    /\ migrate' = [migrate EXCEPT !.pc = "finally", !.tx = "none", !.sql = {}, !.rows = {}]
    /\ UNCHANGED <<now, procs, reply, users, user_details, user_roles, roles, tokens, fileVars,
                   business_invites, schema_migrations, applied>>
    /\ UNCHANGED otpVars

\* finally: client.release(), pool.end(); the process exits.
MigrateFinally ==
    /\ migrate.pc = "finally"
    /\ migrate' = [migrate EXCEPT !.pc = "exited", !.released = TRUE, !.ended = TRUE]
    /\ UNCHANGED <<now, procs, reply, users, user_details, user_roles, roles, tokens, fileVars,
                   business_invites, schema_migrations, applied>>
    /\ UNCHANGED otpVars

(***************************************************************************)
(* Specification of runMigrations, run one after the other on a directory  *)
(* that holds some of three migrations, a file that is no migration and a  *)
(* directory named like one                                                *)
(***************************************************************************)
InitMig ==
    /\ now = 0
    /\ otp_codes = <<>>
    /\ procs = [s \in Slots |-> Idle]
    /\ reply = NoReply
    /\ delivered = {}
    /\ users = <<>>
    /\ user_details = <<>>
    /\ user_roles = {}
    /\ roles = {}
    /\ tokens = {}
    /\ uploads = {}
    /\ saved = 0
    /\ business_invites = <<>>
    /\ schema_migrations = {}
    /\ \E dir \in SUBSET {[name |-> <<"1", ".", "s", "q", "l">>, isFile |-> TRUE],
                          [name |-> <<"1", "0", ".", "s", "q", "l">>, isFile |-> TRUE],
                          [name |-> <<"2", ".", "s", "q", "l">>, isFile |-> TRUE],
                          [name |-> <<"r", ".", "m", "d">>, isFile |-> TRUE],
                          [name |-> <<"d", ".", "s", "q", "l">>, isFile |-> FALSE]} :
           /\ migrate = [NoRun EXCEPT !.dir = dir]
           /\ applied = [f \in {e.name : e \in dir} |-> 0]

NextMig ==
    \/ MigrateStart
    \/ MigrateSelect
    \/ MigrateBegin
    \/ \E ok \in BOOLEAN : MigrateSql(ok)
    \/ MigrateInsert
    \/ MigrateCommit
    \/ MigrateRollback
    \/ MigrateFinally

SpecMig == InitMig /\ [][NextMig]_vars


(***************************************************************************)
(* Claims about runMigrations                                              *)
(***************************************************************************)
\* C38: a run commits only plain .sql files, in ascending order of their
\* names (a file is committed only when every migration with a smaller name is
\* listed), never runs the SQL of a file that is listed in schema_migrations,
\* and in every state a file is listed in schema_migrations exactly when its
\* SQL has been committed, which over all runs happens at most once.
C38_AppliedInOrderOnce ==
    [][LET ascending == <<<<"1", ".", "s", "q", "l">>, <<"1", "0", ".", "s", "q", "l">>,
                          <<"2", ".", "s", "q", "l">>>>
       IN  /\ \A f \in DOMAIN applied :
                  /\ f \in schema_migrations' <=> applied'[f] >= 1
                  /\ applied'[f] <= 1
                  /\ applied'[f] # applied[f] =>
                        \E k \in 1..3 :
                            /\ f = ascending[k]
                            /\ \A j \in 1..(k - 1) :
                                   ascending[j] \in DOMAIN applied => ascending[j] \in schema_migrations
           /\ migrate'.sql \cap schema_migrations = {}
           /\ schema_migrations' \subseteq DOMAIN applied]_vars

\* C38, witness: the first run has committed the first of three migrations and
\* not the last, and the second run stands at the head of its loop, before the
\* file that is listed.
C38_SecondRunMeetsListedFile ==
    /\ migrate.runs = 2
    /\ migrate.pc = "select"
    /\ migrate.i = 1
    /\ Len(migrate.files) = 3
    /\ migrate.files[1] \in schema_migrations
    /\ migrate.files[3] \notin schema_migrations

\* C39: from the failure of a file to the end of the run nothing is committed:
\* the file is not listed and its statements are dropped with the transaction,
\* no later file is run, what earlier files committed stays, and the run ends
\* with the client released and the pool ended.
C39_FailedFileRolledBack ==
    [][/\ \A f \in DOMAIN applied : applied'[f] >= applied[f]
       /\ schema_migrations \subseteq schema_migrations'
       /\ (migrate.failed # NULL /\ migrate'.runs = migrate.runs) =>
              /\ UNCHANGED <<schema_migrations, applied>>
              /\ migrate.failed \notin schema_migrations
              /\ applied[migrate.failed] = 0
              /\ migrate'.failed = migrate.failed
              /\ migrate'.pc \in {"finally", "exited"}
              /\ migrate'.tx = "none" /\ migrate'.sql = {} /\ migrate'.rows = {}
       /\ migrate'.pc = "exited" => migrate'.released /\ migrate'.ended]_vars

\* C39, witness: a run has ended on the failure of a file after it committed an
\* earlier one.
C39_FailedAfterCommit ==
    /\ migrate.runs = 1
    /\ migrate.pc = "exited"
    /\ migrate.failed # NULL
    /\ schema_migrations # {}
    /\ migrate.released /\ migrate.ended

====
